---- MODULE Spec2Model ----
(***************************************************************************)
(* A model of the Tool Broker of code-mode.                                *)
(*                                                                         *)
(*   - the Policy Engine        src/src/security-manager.ts                *)
(*   - the Call Dispatcher      src/unnamed/part_005 (runtime manager,     *)
(*                              createMCPToolProxy)                        *)
(*   - the Registry/Transport   src/src/mcp-client-manager.ts              *)
(*                                                                         *)
(* JavaScript runs one task at a time.  A handler therefore is one atomic  *)
(* action; an `await` cuts a function into two actions, and the part after *)
(* the await is a microtask: it runs before any timer or I/O event.        *)
(***************************************************************************)
EXTENDS Integers, Sequences, FiniteSets, TLC

----------------------------------------------------------------------------
(* Bounds of the model                                                     *)

\* number of tool calls issued through the tool proxies
MaxCalls == 3
\* number of times the clock advances
MaxTicks == 1
\* requestsPerMinute of every rateLimits entry, scaled down from 20..100
RequestsPerMinute == 3
\* number of server instances the Broker creates (over all initialize calls)
MaxInst == 2
\* number of sendRequest calls (callers of the API and tool discovery)
MaxRequests == 2
\* highest value direct trackRequestStart calls drive a counter to
MaxTracked == 3
\* resolution of the clock: readings per minute
TicksPerMinute == 2
\* number of words of the string values given to the payload checks
MaxWords == 3

----------------------------------------------------------------------------
(* Program constants                                                       *)

MinutesPerHour == 60
MaxPayloadSize == 1048576
AuditLogCap == 1000
MaxConcurrentHelpscout == 2
MaxConcurrentAutomem == 10
MaxConcurrentDefault == 5
CleanupAgeMinutes == 2

----------------------------------------------------------------------------
VARIABLES
    \* ---- SecurityManager (security-manager.ts:45-48)
    rateLimitCounters,   \* key <<server, minute of hour>> -> [count, window]
    concurrentRequests,  \* server -> live counter
    auditLog,            \* sequence of audit entries
    policy,              \* this.policy: the allow-lists of the SecurityPolicy
    \* ---- LocalRuntimeManager (part_005:17-23)
    fallbackToMocks,     \* private field, part_005:23
    toolCalls,           \* the proxy calls issued so far, in issue order
    resumeQ,             \* microtasks: calls suspended at `await validateToolCall`
    \* ---- clock (Date), in units of 1/TicksPerMinute minute
    now,
    ticks,
    \* ---- history: the latest call a user of the SecurityManager made on
    \* its public methods, with its arguments and what it returned
    lastCall,
    \* ---- MCPClientManager (mcp-client-manager.ts:33-36)
    cfgFallbackToMock,   \* config.fallbackToMock
    initialized,
    requestCounter,
    servers,             \* the Map: server name -> instance (0: no entry)
    inst,                \* every MCPServerInstance object created so far
    calls,               \* every sendRequest call so far, with its promise
    initRun,             \* the initialize() call in progress
    microtask,           \* the continuation of initializeServer, when due
    issuedIds            \* history: the request ids generated, in order

proxyVars == <<rateLimitCounters, concurrentRequests, auditLog,
               fallbackToMocks, toolCalls, resumeQ, now, ticks, lastCall, policy>>

brokerVars == <<cfgFallbackToMock, initialized, requestCounter, servers,
                inst, calls, initRun, microtask, issuedIds>>

vars == <<rateLimitCounters, concurrentRequests, auditLog,
          fallbackToMocks, toolCalls, resumeQ, now, ticks, lastCall, policy,
          cfgFallbackToMock, initialized, requestCounter, servers,
          inst, calls, initRun, microtask, issuedIds>>

----------------------------------------------------------------------------
(* The security policy: the defaults of the SecurityManager constructor    *)

\* the tool bindings executeNodeCode gives to the executed code
ProxyServers == {"helpscout", "WordPressAPI"}

ToolNames == {"searchConversations", "invalid_method"}

allowedServers == {"automem", "serena", "helpscout", "wordpress"}

allowedTools(serverName) ==
    CASE serverName = "automem" ->
             {"store_memory", "recall", "associate", "analyze"}
      [] serverName = "serena" ->
             {"get_symbols_overview", "search_for_pattern"}
      [] serverName = "helpscout" ->
             {"searchConversations", "getConversationSummary"}
      [] serverName = "wordpress" ->
             {"get_site_info", "wp_feature_query-posts"}
      [] OTHER -> {}

\* the names the policy tables and concurrentRequests are read for
TrackedServers == ProxyServers \cup allowedServers

\* an entry of policy.allowedTools: the wildcard '*', a list of tool names,
\* or undefined when the table has no entry for the server
Wildcard == [kind |-> "*", tools |-> {}]

ToolList(tools) == [kind |-> "list", tools |-> tools]

NoEntry == [kind |-> "undefined", tools |-> {}]

\* the allow-lists of the policy the constructor builds without arguments
DefaultPolicy ==
    [allowedServers |-> allowedServers,
     allowedTools |-> [s \in TrackedServers |->
                          IF allowedTools(s) = {} THEN NoEntry
                          ELSE ToolList(allowedTools(s))]]

\* a tool check that would take a missing entry for the wildcard
ToolAllowedByDefault(entry, toolName) ==
    entry.kind # "list" \/ toolName \in entry.tools

\* the negation of: allowedTools !== '*' &&
\*                  (!allowedTools || !allowedTools.includes(toolName))
ToolAllowed(entry, toolName) ==
    entry.kind = "*" \/ (entry.kind = "list" /\ toolName \in entry.tools)

\* { ...this.policy, ...updates }: the fields of updates replace whole fields
updatePolicy(current, updates) ==
    [k \in DOMAIN current |->
        IF k \in DOMAIN updates THEN updates[k] ELSE current[k]]

\* rateLimits[serverName] || rateLimits.default
rateLimits(serverName) ==
    CASE serverName = "automem" ->
             [requestsPerMinute |-> RequestsPerMinute,
              maxConcurrent |-> MaxConcurrentAutomem]
      [] serverName = "helpscout" ->
             [requestsPerMinute |-> RequestsPerMinute,
              maxConcurrent |-> MaxConcurrentHelpscout]
      [] OTHER ->
             [requestsPerMinute |-> RequestsPerMinute,
              maxConcurrent |-> MaxConcurrentDefault]

sanitizeInputsEnabled == TRUE

auditLogging == TRUE

\* does the tool name contain 'file', 'read' or 'write'
MentionsFile(toolName) == toolName \in {"read_file", "write_file"}

\* SecurityContext.permissions, as the permission check reads it
ContextSet == [hosts : BOOLEAN, files : BOOLEAN]

----------------------------------------------------------------------------
(* Tool-call parameters: JSON values                                       *)
(*                                                                         *)
(* A string is a sequence of words (each word a fixed piece of text)       *)
(* followed by a run of `run` filler characters 'x'; an object is the      *)
(* sequence of its entries in insertion order; a key is a sequence of      *)
(* words.                                                                  *)

JString(words, run) == [type |-> "string", words |-> words, run |-> run]

JNumber(n) == [type |-> "number", n |-> n]

JArray(items) == [type |-> "array", items |-> items]

JObject(fields) == [type |-> "object", fields |-> fields]

Field(key, value) == [key |-> key, value |-> value]

\* typeof value === 'object' (null is not modelled)
IsObject(value) == value.type \in {"object", "array"}

\* the number of characters of a word
WordLen(w) ==
    CASE w = "hi" -> 2
      [] w = "vb" -> 2
      [] w = "java" -> 4
      [] w = "data:" -> 5
      [] w = "onload" -> 6
      [] w = "script:" -> 7
      [] w = "<script>" -> 8
      [] w = "</script>" -> 9
      [] w = "[REDACTED]" -> 10
      [] w = "hunter2" -> 7
      [] w = "content" -> 7
      [] w = "query" -> 5
      [] w = "meta" -> 4
      [] w = "note" -> 4
      [] w = "tags" -> 4
      [] w = "items" -> 5
      [] w = "api" -> 3
      [] w = "Key" -> 3
      [] w = "key" -> 3
      [] w = "Password" -> 8
      [] w = "password" -> 8
      [] w = "auth" -> 4
      [] w = "Token" -> 5
      [] w = "token" -> 5
      [] OTHER -> 1

\* String.prototype.toLowerCase, word by word
toLowerCase(key) ==
    [i \in 1..Len(key) |->
        CASE key[i] = "Key" -> "key"
          [] key[i] = "Password" -> "password"
          [] key[i] = "Token" -> "token"
          [] OTHER -> key[i]]

\* Object.entries: an array yields its indices as keys
Entries(value) ==
    IF value.type = "array"
    THEN [i \in 1..Len(value.items) |->
             Field(<<ToString(i - 1)>>, value.items[i])]
    ELSE value.fields

\* the text without every leftmost, non-overlapping occurrence of pattern
RECURSIVE ReplaceAll(_, _)
ReplaceAll(text, pattern) ==
    IF Len(text) < Len(pattern)
    THEN text
    ELSE IF SubSeq(text, 1, Len(pattern)) = pattern
         THEN ReplaceAll(SubSeq(text, Len(pattern) + 1, Len(text)), pattern)
         ELSE <<Head(text)>> \o ReplaceAll(Tail(text), pattern)

\* /<script\b[^<]*(?:(?!<\/script>)<[^<]*)*<\/script>/gi: from an opening
\* tag through the first closing tag after it
RECURSIVE ReplaceScriptBlocks(_)
ReplaceScriptBlocks(text) ==
    IF text = <<>>
    THEN text
    ELSE LET closing == {j \in 2..Len(text) : text[j] = "</script>"}
         IN  IF Head(text) = "<script>" /\ closing # {}
             THEN LET first == CHOOSE j \in closing :
                                   \A k \in closing : j <= k
                  IN  ReplaceScriptBlocks(SubSeq(text, first + 1, Len(text)))
             ELSE <<Head(text)>> \o ReplaceScriptBlocks(Tail(text))

\* the chain of replace calls applied to a string value
SanitizeString(text) ==
    LET noScript == ReplaceScriptBlocks(text)
        noJavascript == ReplaceAll(noScript, <<"java", "script:">>)
        noData == ReplaceAll(noJavascript, <<"data:">>)
        noVbscript == ReplaceAll(noData, <<"vb", "script:">>)
    IN  ReplaceAll(noVbscript, <<"onload">>)

RECURSIVE sanitizeInputs(_)
sanitizeInputs(params) ==
    LET entries == Entries(params)
        sanitizeItem(item) ==
            IF IsObject(item) THEN sanitizeInputs(item) ELSE item
        sanitizeValue(value) ==
            IF value.type = "string"
            THEN JString(SanitizeString(value.words), value.run)
            ELSE IF value.type = "array"
            THEN JArray([i \in 1..Len(value.items) |->
                            sanitizeItem(value.items[i])])
            ELSE IF value.type = "object"
            THEN sanitizeInputs(value)
            ELSE value
    IN  JObject([i \in 1..Len(entries) |->
                    Field(entries[i].key, sanitizeValue(entries[i].value))])

sensitiveKeys == {"password", "token", "secret", "key", "auth", "credential"}

\* sensitiveKeys.some(sensitive => key.toLowerCase().includes(sensitive))
IsSensitive(key) ==
    \E i \in 1..Len(key) : toLowerCase(key)[i] \in sensitiveKeys

Redacted == JString(<<"[REDACTED]">>, 0)

\* a redaction that copies nested values as they are
sanitizeForLoggingShallow(params) ==
    LET entries == Entries(params)
    IN  JObject([i \in 1..Len(entries) |->
                    Field(entries[i].key,
                          IF IsSensitive(entries[i].key)
                          THEN Redacted ELSE entries[i].value)])

RECURSIVE sanitizeForLogging(_)
sanitizeForLogging(params) ==
    LET entries == Entries(params)
        logValue(key, value) ==
            IF IsSensitive(key)
            THEN Redacted
            ELSE IF IsObject(value)
            THEN sanitizeForLogging(value)
            ELSE value
    IN  JObject([i \in 1..Len(entries) |->
                    Field(entries[i].key,
                          logValue(entries[i].key, entries[i].value))])

\* JSON.stringify as run-length pieces: the word w repeated n times
Piece(w) == [w |-> w, n |-> 1]

RECURSIVE Join(_)
Join(texts) ==
    IF texts = <<>>
    THEN <<>>
    ELSE IF Len(texts) = 1
    THEN texts[1]
    ELSE texts[1] \o <<Piece(",")>> \o Join(Tail(texts))

Quoted(words) ==
    <<Piece("\"")>> \o [i \in 1..Len(words) |-> Piece(words[i])]
        \o <<Piece("\"")>>

RECURSIVE JSONstringify(_)
JSONstringify(value) ==
    CASE value.type = "string" ->
             <<Piece("\"")>>
                 \o [i \in 1..Len(value.words) |-> Piece(value.words[i])]
                 \o (IF value.run > 0
                     THEN <<[w |-> "x", n |-> value.run]>> ELSE <<>>)
                 \o <<Piece("\"")>>
      [] value.type = "number" -> <<Piece(ToString(value.n))>>
      [] value.type = "array" ->
             <<Piece("[")>>
                 \o Join([i \in 1..Len(value.items) |->
                             JSONstringify(value.items[i])])
                 \o <<Piece("]")>>
      [] value.type = "object" ->
             <<Piece("{")>>
                 \o Join([i \in 1..Len(value.fields) |->
                             Quoted(value.fields[i].key) \o <<Piece(":")>>
                                 \o JSONstringify(value.fields[i].value)])
                 \o <<Piece("}")>>

\* serialized.length
RECURSIVE TextLength(_)
TextLength(text) ==
    IF text = <<>>
    THEN 0
    ELSE WordLen(Head(text).w) * Head(text).n + TextLength(Tail(text))

\* the params convertArgsToParams builds from one string argument
Query(words, run) == JObject(<<Field(<<"query">>, JString(words, run))>>)

\* params of the proxies: a plain query, one with a javascript: URL and one
\* of more than maxPayloadSize characters
ParamsSet ==
    {Query(<<"hi">>, 0), Query(<<"java", "script:">>, 0),
     Query(<<"hi">>, MaxPayloadSize)}

----------------------------------------------------------------------------
(* SecurityManager                                                         *)

checkRuntimePermissions(context, serverName, toolName) ==
    /\ (serverName \in {"helpscout", "wordpress"} => context.hosts)
    /\ (serverName \in {"serena", "automem"} /\ MentionsFile(toolName)
            => context.files)

cleanupRateLimitCounters(counters, t) ==
    LET keep == {k \in DOMAIN counters :
                    ~(counters[k].window
                         < t - CleanupAgeMinutes * TicksPerMinute)}
    IN  [k \in keep |-> counters[k]]

\* Date.getMinutes()
getMinutes(t) == (t \div TicksPerMinute) % MinutesPerHour

\* a rate check that would count a request only once the concurrency test
\* has passed as well
checkRateLimitsCountOnPass(counters, concurrent, serverName, t) ==
    LET limits == rateLimits(serverName)
        key == <<serverName, getMinutes(t)>>
    IN  IF key \in DOMAIN counters
              /\ counters[key].count >= limits.requestsPerMinute
        THEN [ok |-> FALSE, counters |-> counters]
        ELSE LET counted ==
                     IF key \in DOMAIN counters
                     THEN [counters EXCEPT ![key].count = @ + 1]
                     ELSE [k \in DOMAIN counters \cup {key} |->
                              IF k = key THEN [count |-> 1, window |-> t]
                                         ELSE counters[k]]
             IN  IF concurrent[serverName] >= limits.maxConcurrent
                 THEN [ok |-> FALSE, counters |-> counters]
                 ELSE [ok |-> TRUE,
                       counters |-> cleanupRateLimitCounters(counted, t)]

\* [ok, counters]: the verdict and the counters map the call leaves behind
checkRateLimits(counters, concurrent, serverName, t) ==
    LET limits == rateLimits(serverName)
        key == <<serverName, getMinutes(t)>>
    IN  IF key \in DOMAIN counters
              /\ counters[key].count >= limits.requestsPerMinute
        THEN [ok |-> FALSE, counters |-> counters]
        ELSE LET counted ==
                     IF key \in DOMAIN counters
                     THEN [counters EXCEPT ![key].count = @ + 1]
                     ELSE [k \in DOMAIN counters \cup {key} |->
                              IF k = key THEN [count |-> 1, window |-> t]
                                         ELSE counters[k]]
             IN  IF concurrent[serverName] >= limits.maxConcurrent
                 THEN [ok |-> FALSE, counters |-> counted]
                 ELSE [ok |-> TRUE,
                       counters |-> cleanupRateLimitCounters(counted, t)]

\* a size check that turns down a payload of exactly the maximum size
validatePayloadBelow(params) ==
    LET serialized == JSONstringify(params)
    IN  IF TextLength(serialized) >= MaxPayloadSize
        THEN "Payload exceeds maximum size limit"
        ELSE IF sanitizeInputsEnabled
                  /\ JSONstringify(sanitizeInputs(params)) # serialized
             THEN "Payload contains potentially unsafe content"
             ELSE ""

\* "" when valid, else the reason
validatePayload(params) ==
    LET serialized == JSONstringify(params)
    IN  IF TextLength(serialized) > MaxPayloadSize
        THEN "Payload exceeds maximum size limit"
        ELSE IF sanitizeInputsEnabled
                  /\ JSONstringify(sanitizeInputs(params)) # serialized
             THEN "Payload contains potentially unsafe content"
             ELSE ""

\* the checks with the tool allow-list looked at before the server allow-list
performSecurityChecksToolFirst(counters, concurrent, context, server, tool, params, t) ==
    IF ~ToolAllowed(policy.allowedTools[server], tool)
    THEN [allowed |-> FALSE, reason |-> "Tool not allowed on server",
          counters |-> counters]
    ELSE IF server \notin policy.allowedServers
    THEN [allowed |-> FALSE, reason |-> "Server not in allowed list",
          counters |-> counters]
    ELSE IF ~checkRuntimePermissions(context, server, tool)
    THEN [allowed |-> FALSE, reason |-> "Insufficient runtime permissions",
          counters |-> counters]
    ELSE LET rate == checkRateLimits(counters, concurrent, server, t)
         IN  IF ~rate.ok
             THEN [allowed |-> FALSE, reason |-> "Rate limit exceeded",
                   counters |-> rate.counters]
             ELSE IF validatePayload(params) # ""
             THEN [allowed |-> FALSE, reason |-> validatePayload(params),
                   counters |-> rate.counters]
             ELSE [allowed |-> TRUE, reason |-> "", counters |-> rate.counters]

\* [allowed, reason, counters]
performSecurityChecks(counters, concurrent, context, server, tool, params, t) ==
    IF server \notin policy.allowedServers
    THEN [allowed |-> FALSE, reason |-> "Server not in allowed list",
          counters |-> counters]
    ELSE IF ~ToolAllowed(policy.allowedTools[server], tool)
    THEN [allowed |-> FALSE, reason |-> "Tool not allowed on server",
          counters |-> counters]
    ELSE IF ~checkRuntimePermissions(context, server, tool)
    THEN [allowed |-> FALSE, reason |-> "Insufficient runtime permissions",
          counters |-> counters]
    ELSE LET rate == checkRateLimits(counters, concurrent, server, t)
         IN  IF ~rate.ok
             THEN [allowed |-> FALSE, reason |-> "Rate limit exceeded",
                   counters |-> rate.counters]
             ELSE IF validatePayload(params) # ""
             THEN [allowed |-> FALSE, reason |-> validatePayload(params),
                   counters |-> rate.counters]
             ELSE [allowed |-> TRUE, reason |-> "",
                   counters |-> rate.counters]

\* the entry validateToolCall logs: no duration is set
AuditEntry(serverName, toolName, params, v, t) ==
    [timestamp |-> t, serverName |-> serverName, toolName |-> toolName,
     params |-> sanitizeForLogging(params),
     result |-> IF v.allowed THEN "success" ELSE "denied",
     reason |-> v.reason]

\* a log that takes the new entry at its head
logAuditEntryAtHead(log, entry) ==
    LET pushed == <<entry>> \o log
    IN  IF Len(pushed) > AuditLogCap
        THEN SubSeq(pushed, 1, AuditLogCap)
        ELSE pushed

logAuditEntry(log, entry) ==
    LET pushed == Append(log, entry)
    IN  IF Len(pushed) > AuditLogCap
        THEN SubSeq(pushed, Len(pushed) - AuditLogCap + 1, Len(pushed))
        ELSE pushed

\* [allowed, reason, counters, log]
validateToolCall(counters, concurrent, log, context, server, tool, params, t) ==
    LET v == performSecurityChecks(counters, concurrent, context, server,
                                   tool, params, t)
    IN  [allowed |-> v.allowed, reason |-> v.reason, counters |-> v.counters,
         log |-> IF auditLogging
                 THEN logAuditEntry(log,
                          AuditEntry(server, tool, params, v, t))
                 ELSE log]

trackRequestStart(concurrent, serverName) ==
    [concurrent EXCEPT ![serverName] = @ + 1]

\* a request end that would leave the counter as it is
trackRequestEndLost(concurrent, serverName) == concurrent

\* a request end without the clamp at zero
trackRequestEndUnclamped(concurrent, serverName) ==
    [concurrent EXCEPT ![serverName] = @ - 1]

trackRequestEnd(concurrent, serverName) ==
    [concurrent EXCEPT ![serverName] = IF @ - 1 > 0 THEN @ - 1 ELSE 0]


----------------------------------------------------------------------------
(* MCPClientManager: data                                                  *)

\* the names the server configurations use
BrokerServers == {"helpscout", "automem"}

\* the serverConfigs an initialize() call may be given
ConfigChoices ==
    { <<[name |-> "helpscout", type |-> "stdio"]>>,
      <<[name |-> "helpscout", type |-> "stdio"],
        [name |-> "automem", type |-> "stdio"]>>,
      <<[name |-> "automem", type |-> "http"]>> }

OneStdioServer == { <<[name |-> "helpscout", type |-> "stdio"]>> }

\* a request id `req_${n}_${t}`, kept as its two numbers
NoId == [n |-> 0, t |-> 0]

\* an id the Broker never generates: the counter is pre-incremented from 0
UnknownId == [n |-> 0, t |-> 1]

RECURSIVE Digits(_)
\* the decimal digits of a number, as String(n) writes them
Digits(n) == IF n < 10 THEN <<n>> ELSE Append(Digits(n \div 10), n % 10)

\* the id as the string the code compares: "req_" + n + "_" + t
IdString(id) == <<"req_">> \o Digits(id.n) \o <<"_">> \o Digits(id.t)

\* item.id === parsed.id
SameId(a, b) == IdString(a) = IdString(b)

\* a counter that would wrap around after two ids
NextCounterWrapping(counter) == (counter % 2) + 1

\* ++this.requestCounter
NextCounter(counter) == counter + 1

generateRequestId(counter, t) == [n |-> NextCounter(counter), t |-> t]

NoTask == [kind |-> "none", inst |-> 0]

IdleRun == [pc |-> "idle", cfg |-> <<>>, idx |-> 0, last |-> "none"]

\* the instance initializeServer creates, after the synchronous part of
\* startStdioServer: child spawned, both startup listeners attached, the
\* init timer armed and the initialize request written
NewStdioInstance(entry, id) ==
    [name |-> entry.name, type |-> entry.type, status |-> "starting",
     child |-> "running", exitMark |-> 0, killed |-> FALSE,
     onData |-> TRUE, initHandler |-> TRUE, respHandler |-> FALSE,
     requestQueue |-> <<>>, initId |-> id, initTimer |-> TRUE,
     discoverTimer |-> FALSE, startPromise |-> "pending",
     written |-> <<[method |-> "initialize", id |-> id]>>,
     tools |-> FALSE, cut |-> NoId]

\* startHttpServer does nothing: no child, no listener, no request
NewHttpInstance(entry) ==
    [name |-> entry.name, type |-> entry.type, status |-> "starting",
     child |-> "none", exitMark |-> 0, killed |-> FALSE,
     onData |-> FALSE, initHandler |-> FALSE, respHandler |-> FALSE,
     requestQueue |-> <<>>, initId |-> NoId, initTimer |-> FALSE,
     discoverTimer |-> FALSE, startPromise |-> "resolved",
     written |-> <<>>, tools |-> FALSE, cut |-> NoId]

\* the params argument of sendRequest: the proxy and API callers pass
\* { name, arguments }, discoverServerTools passes none
RequestParams(origin) ==
    IF origin = "discover"
    THEN [name |-> "", arguments |-> ""]
    ELSE [name |-> "searchConversations", arguments |-> "query"]

\* no response object yet
NoResponse == [mock |-> FALSE]

\* the result object of a reply read from the child: has it a tools array
Response(chunk) == [mock |-> FALSE, tools |-> chunk.tools]

\* generateMockResponse(method, params): the result object of the reply
generateMockResponse(method, params) ==
    [mock |-> TRUE, method |-> method, params |-> params,
     message |-> "Mock response - MCP server not available"]

\* a request sent without a deadline timer
NewCallUntimed(serverName, i, id, origin, dInst, outcome) ==
    [server |-> serverName, inst |-> i, id |-> id, origin |-> origin,
     discInst |-> dInst, outcome |-> outcome,
     by |-> IF outcome = "pending" THEN "none" ELSE "sendRequest",
     timer |-> FALSE, replyId |-> NoId, replySeen |-> FALSE,
     arrived |-> "none",
     result |-> NoResponse]

NewCall(serverName, i, id, origin, dInst, outcome) ==
    [server |-> serverName, inst |-> i, id |-> id, origin |-> origin,
     discInst |-> dInst, outcome |-> outcome,
     by |-> IF outcome = "pending" THEN "none" ELSE "sendRequest",
     timer |-> outcome = "pending", replyId |-> NoId, replySeen |-> FALSE,
     arrived |-> "none",
     result |-> NoResponse]

\* a promise that would take every settlement, the last one winning
SettleAgain(call, outcome, by, replyId) ==
    [call EXCEPT !.outcome = outcome, !.by = by, !.replyId = replyId]

\* resolve(value) / reject(error) of the promise of sendStdioRequest: a
\* promise keeps the first settlement
Settle(call, outcome, by, replyId) ==
    IF call.outcome = "pending"
    THEN [call EXCEPT !.outcome = outcome, !.by = by, !.replyId = replyId]
    ELSE call

RemoveAt(q, k) == SubSeq(q, 1, k - 1) \o SubSeq(q, k + 1, Len(q))

Min(S) == CHOOSE x \in S : \A y \in S : x <= y

\* no continuation is due: timers and I/O events may run
Quiet == microtask = NoTask /\ resumeQ = <<>>

isServerAvailable(serverName) ==
    /\ serverName \in BrokerServers
    /\ servers[serverName] # 0
    /\ inst[servers[serverName]].status = "ready"

----------------------------------------------------------------------------
(* MCPClientManager: the listeners on the child's stdout                   *)
(* A world w = [inst, calls, task] is threaded through the listeners of    *)
(* one 'data' event, in the order they were attached.                      *)

\* the requests child i has read
ReadBy(i) ==
    IF inst[i].child = "running"
    THEN inst[i].written
    ELSE SubSeq(inst[i].written, 1, inst[i].exitMark)

\* the ids of the requests child i may answer
Answerable(i) ==
    {ReadBy(i)[k].id : k \in {j \in 1..Len(ReadBy(i)) :
                ReadBy(i)[j].method # "notifications/initialized"}}

\* the chunks in which the pipe delivers more or less than one line: two
\* lines at once, a reply after another reply (first is its id) or after a
\* line of text (first is NoId); the first piece of a reply; the rest of the
\* reply whose first piece came in the chunk before (inst[i].cut)
CutChunks(i) ==
    IF inst[i].cut # NoId
    THEN {[kind |-> "tail", id |-> inst[i].cut, error |-> FALSE,
           newline |-> TRUE]}
    ELSE {[kind |-> "batch", first |-> p[2], id |-> p[1], error |-> FALSE,
           newline |-> TRUE] :
              p \in {q \in Answerable(i) \X (Answerable(i) \cup {NoId}) :
                        q[1] # q[2]}}
         \cup {[kind |-> "head", id |-> x, error |-> FALSE,
                newline |-> FALSE] : x \in Answerable(i)}

\* the chunks that hold one line, or a piece of text without a newline: a
\* reply to a request child i has read (an error, a result, a result with a
\* tools array), a reply with an id of its own, a notification, a line of
\* text, a piece of a line; a tools array comes in answers to tools/list
LineChunks(i) ==
    LET read == IF inst[i].child = "running"
                THEN inst[i].written
                ELSE SubSeq(inst[i].written, 1, inst[i].exitMark)
        ids == {read[k].id : k \in {j \in 1..Len(read) :
                                       read[j].method # "notifications/initialized"}}
    IN  {[kind |-> "reply", id |-> x, error |-> e, newline |-> TRUE,
          tools |-> FALSE] : x \in ids \cup {UnknownId}, e \in BOOLEAN}
        \cup {[kind |-> "reply", id |-> read[k].id, error |-> FALSE,
                newline |-> TRUE, tools |-> TRUE] :
                  k \in {j \in 1..Len(read) : read[j].method = "tools/list"}}
        \cup {[kind |-> "notification", id |-> NoId, error |-> FALSE,
               newline |-> TRUE, tools |-> FALSE],
              [kind |-> "text", id |-> NoId, error |-> FALSE,
               newline |-> TRUE, tools |-> FALSE],
              [kind |-> "partial", id |-> NoId, error |-> FALSE,
               newline |-> FALSE, tools |-> FALSE]}

\* the chunks child i's stdout may deliver next, the stream being cut
\* anywhere: after the first piece of a reply comes the rest of it
Chunks(i) ==
    IF inst[i].cut # NoId THEN CutChunks(i)
    ELSE LineChunks(i) \cup CutChunks(i)

\* the replies whose last byte, the newline, arrives in the chunk
Completes(chunk) ==
    CASE chunk.kind \in {"reply", "tail"} -> {chunk.id}
      [] chunk.kind = "batch" -> {chunk.id, chunk.first} \ {NoId}
      [] OTHER -> {}

\* JSON.parse(data.toString()) succeeds
Parses(chunk) == chunk.kind \in {"reply", "notification"}

ResolveStart(w, i) ==
    IF w.inst[i].startPromise = "pending"
    THEN [w EXCEPT !.inst[i].startPromise = "resolved",
                   !.task = [kind |-> "started", inst |-> i]]
    ELSE w

RejectStart(w, i) ==
    IF w.inst[i].startPromise = "pending"
    THEN [w EXCEPT !.inst[i].startPromise = "rejected",
                   !.task = [kind |-> "startFailed", inst |-> i]]
    ELSE w

onData(w, i, chunk) ==
    IF w.inst[i].onData /\ chunk.newline
    THEN ResolveStart([w EXCEPT !.inst[i].onData = FALSE], i)
    ELSE w

initResponseHandler(w, i, chunk) ==
    IF /\ w.inst[i].initHandler
       /\ Parses(chunk)
       /\ chunk.kind = "reply"
       /\ SameId(chunk.id, w.inst[i].initId)
    THEN ResolveStart(
             [w EXCEPT !.inst[i].initTimer = FALSE,
                       !.inst[i].initHandler = FALSE,
                       !.inst[i].written =
                           Append(@, [method |-> "notifications/initialized",
                                      id |-> NoId]),
                       !.inst[i].discoverTimer = TRUE], i)
    ELSE w

\* a discovery that would give up the server when tools/list fails
discoverServerToolsOrFail(w, c, chunk) ==
    IF w.calls[c].origin = "discover"
    THEN IF w.calls[c].outcome = "result" /\ chunk.tools
         THEN [w EXCEPT !.inst[w.calls[c].discInst].tools = TRUE]
         ELSE [w EXCEPT !.inst[w.calls[c].discInst].status = "error"]
    ELSE w

\* the continuation of discoverServerTools once its request has settled by
\* a reply: if (response.result?.tools) the tools are added to server.tools
discoverServerTools(w, c, chunk) ==
    IF /\ w.calls[c].origin = "discover"
       /\ w.calls[c].outcome = "result"
       /\ chunk.tools
    THEN [w EXCEPT !.inst[w.calls[c].discInst].tools = TRUE]
    ELSE w

handleStdioResponse(w, i, chunk) ==
    LET q == w.inst[i].requestQueue
        hits == {k \in 1..Len(q) : SameId(q[k].id, chunk.id)}
    IN  IF /\ w.inst[i].respHandler
           /\ Parses(chunk)
           /\ chunk.kind = "reply"
           /\ hits # {}
        THEN LET k == Min(hits)
                 c == q[k].call
                 settled ==
                     [Settle(w.calls[c],
                             IF chunk.error THEN "RemoteError" ELSE "result",
                             "reply", chunk.id)
                        EXCEPT !.timer = FALSE,
                               !.result = IF w.calls[c].outcome = "pending"
                                          THEN Response(chunk) ELSE @]
             IN  discoverServerTools(
                     [w EXCEPT !.inst[i].requestQueue = RemoveAt(q, k),
                               !.calls[c] = settled], c, chunk)
        ELSE w

\* history: the call saw a reply with its id arrive on its server's stdout
\* while it was waiting in the pending table
MarkReplySeen(before, after, i, chunk) ==
    [c \in 1..Len(after) |->
        IF /\ chunk.kind = "reply"
           /\ before[c].inst = i
           /\ before[c].outcome = "pending"
           /\ SameId(before[c].id, chunk.id)
        THEN [after[c] EXCEPT !.replySeen = TRUE]
        ELSE after[c]]

\* how the chunk holds the replies it completes
Cut(chunk) ==
    CASE chunk.kind = "tail" -> "split"
      [] chunk.kind = "batch" ->
             IF chunk.first = NoId THEN "afterText" ELSE "batch"
      [] OTHER -> "line"

\* history: the last byte of the reply to the call arrived while the call
\* was waiting in the pending table with the response listener attached;
\* `arrived` keeps how the chunk held the reply
MarkArrived(before, after, i, chunk) ==
    [c \in 1..Len(after) |->
        IF /\ before[c].inst = i
           /\ before[c].outcome = "pending"
           /\ inst[i].respHandler
           /\ \E k \in 1..Len(inst[i].requestQueue) :
                 inst[i].requestQueue[k].call = c
           /\ \E x \in Completes(chunk) : SameId(x, before[c].id)
        THEN [after[c] EXCEPT !.arrived = Cut(chunk)]
        ELSE after[c]]

----------------------------------------------------------------------------
(* MCPClientManager: actions                                               *)

\* initializeServer up to its await: the instance is created and registered
\* and the transport started.  `base` is inst as the caller leaves it.
BeginServer(base, entry) ==
    LET i == Len(base) + 1
        id == generateRequestId(requestCounter, now)
    IN  /\ servers' = [servers EXCEPT ![entry.name] = i]
        /\ IF entry.type = "http"
           THEN /\ inst' = Append(base, NewHttpInstance(entry))
                /\ microtask' = [kind |-> "started", inst |-> i]
                /\ UNCHANGED <<requestCounter, issuedIds>>
           ELSE /\ inst' = Append(base, NewStdioInstance(entry, id))
                /\ microtask' = NoTask
                /\ requestCounter' = NextCounter(requestCounter)
                /\ issuedIds' = Append(issuedIds, id)

\* an initialize that would not look at the flag
NeverInitialized == FALSE

\* if (this.initialized) return;
AlreadyInitialized == initialized

\* initialize(serverConfigs), to the await on the first server; initRun.last
\* keeps how the last call of initialize ended
Initialize(cfg) ==
    /\ Quiet
    /\ initRun.pc = "idle"
    /\ IF AlreadyInitialized
       THEN /\ initRun' = [initRun EXCEPT !.last = "noop"]
            /\ UNCHANGED <<servers, inst, microtask, requestCounter,
                           issuedIds>>
       ELSE /\ Len(inst) + Len(cfg) <= MaxInst
            /\ initRun' = [pc |-> "running", cfg |-> cfg, idx |-> 1,
                           last |-> "none"]
            /\ BeginServer(inst, cfg[1])
    /\ UNCHANGED <<cfgFallbackToMock, initialized, calls, now, ticks>>
    /\ UNCHANGED <<rateLimitCounters, concurrentRequests, auditLog,
                   fallbackToMocks, toolCalls, resumeQ, lastCall, policy>>

\* a catch block that would rethrow whatever the configuration says
RethrowsAlways(ok) == ~ok

\* the catch block of initialize: if (!this.config.fallbackToMock) throw error
Rethrows(ok) == ~ok /\ ~cfgFallbackToMock

\* initializeServer after `await startStdioServer(server)`, and the loop of
\* initialize up to its next await or its end
InitResume ==
    /\ microtask # NoTask
    /\ LET i == microtask.inst
           ok == microtask.kind = "started"
           marked == [inst EXCEPT
                         ![i].status = IF ok THEN "ready" ELSE "error"]
       IN  IF Rethrows(ok)
           THEN \* initialize rethrows
                /\ inst' = marked
                /\ initRun' = [IdleRun EXCEPT !.last = "failed"]
                /\ microtask' = NoTask
                /\ UNCHANGED <<initialized, servers, requestCounter,
                               issuedIds>>
           ELSE IF initRun.idx < Len(initRun.cfg)
                THEN /\ initRun' = [initRun EXCEPT !.idx = @ + 1]
                     /\ BeginServer(marked, initRun.cfg[initRun.idx + 1])
                     /\ UNCHANGED initialized
                ELSE /\ inst' = marked
                     /\ initialized' = TRUE
                     /\ initRun' = [IdleRun EXCEPT !.last = "ok"]
                     /\ microtask' = NoTask
                     /\ UNCHANGED <<servers, requestCounter, issuedIds>>
    /\ UNCHANGED <<cfgFallbackToMock, calls, now, ticks>>
    /\ UNCHANGED <<rateLimitCounters, concurrentRequests, auditLog,
                   fallbackToMocks, toolCalls, resumeQ, lastCall, policy>>

\* a 'data' event of child i's stdout
StdoutData(i, chunk) ==
    /\ Quiet
    /\ inst[i].child \in {"running", "exited"}
    /\ chunk \in Chunks(i)
    /\ LET w0 == [inst |-> inst, calls |-> calls, task |-> microtask]
           w1 == onData(w0, i, chunk)
           w2 == initResponseHandler(w1, i, chunk)
           w3 == handleStdioResponse(w2, i, chunk)
       IN  /\ inst' = [w3.inst EXCEPT
                  ![i].cut = IF chunk.kind = "head" THEN chunk.id ELSE NoId]
           /\ calls' = MarkArrived(calls,
                         MarkReplySeen(calls, w3.calls, i, chunk), i, chunk)
           /\ microtask' = w3.task
    /\ UNCHANGED <<cfgFallbackToMock, initialized, requestCounter, servers,
                   initRun, issuedIds, now, ticks>>
    /\ UNCHANGED <<rateLimitCounters, concurrentRequests, auditLog,
                   fallbackToMocks, toolCalls, resumeQ, lastCall, policy>>

\* the 'exit' event of child i
ChildExit(i, code) ==
    /\ Quiet
    /\ inst[i].child = "running"
    /\ inst' = [inst EXCEPT
           ![i].child = "exited",
           ![i].exitMark = Len(inst[i].written),
           ![i].status = IF code # 0 THEN "error" ELSE @]
    /\ UNCHANGED <<cfgFallbackToMock, initialized, requestCounter, servers,
                   calls, initRun, microtask, issuedIds, now, ticks>>
    /\ UNCHANGED <<rateLimitCounters, concurrentRequests, auditLog,
                   fallbackToMocks, toolCalls, resumeQ, lastCall, policy>>

\* the 'error' event of child i: the process could not be spawned
ProcessError(i) ==
    /\ Quiet
    /\ inst[i].child = "running"
    /\ LET w0 == [inst |-> [inst EXCEPT ![i].child = "failed"],
                  calls |-> calls, task |-> microtask]
           w1 == RejectStart(w0, i)
       IN  inst' = w1.inst /\ microtask' = w1.task
    /\ UNCHANGED <<cfgFallbackToMock, initialized, requestCounter, servers,
                   calls, initRun, issuedIds, now, ticks>>
    /\ UNCHANGED <<rateLimitCounters, concurrentRequests, auditLog,
                   fallbackToMocks, toolCalls, resumeQ, lastCall, policy>>

\* the init timer of instance i fires
InitTimeoutFires(i) ==
    /\ Quiet
    /\ inst[i].initTimer
    /\ LET w0 == [inst |-> [inst EXCEPT ![i].initTimer = FALSE],
                  calls |-> calls, task |-> microtask]
           w1 == IF inst[i].status = "starting" THEN RejectStart(w0, i) ELSE w0
       IN  inst' = w1.inst /\ microtask' = w1.task
    /\ UNCHANGED <<cfgFallbackToMock, initialized, requestCounter, servers,
                   calls, initRun, issuedIds, now, ticks>>
    /\ UNCHANGED <<rateLimitCounters, concurrentRequests, auditLog,
                   fallbackToMocks, toolCalls, resumeQ, lastCall, policy>>

\* sendRequest(serverName, method), with sendStdioRequest
sendRequest(base, serverName, method, origin, dInst) ==
    LET i == servers[serverName]
        c == Len(calls) + 1
        id == generateRequestId(requestCounter, now)
    IN  IF i = 0
        THEN /\ calls' = Append(calls, NewCall(serverName, 0, NoId, origin,
                                               dInst, "NotFound"))
             /\ inst' = base
             /\ UNCHANGED <<requestCounter, issuedIds>>
        ELSE IF base[i].status # "ready"
        THEN IF cfgFallbackToMock
             THEN \* generateMockResponse draws an id of its own
                  /\ calls' = Append(calls,
                        [NewCall(serverName, i, id, origin, dInst, "mock")
                           EXCEPT !.result = generateMockResponse(
                                      method, RequestParams(origin))])
                  /\ inst' = base
                  /\ requestCounter' = NextCounter(requestCounter)
                  /\ issuedIds' = Append(issuedIds, id)
             ELSE /\ calls' = Append(calls, NewCall(serverName, i, NoId,
                                         origin, dInst, "ServerUnavailable"))
                  /\ inst' = base
                  /\ UNCHANGED <<requestCounter, issuedIds>>
        ELSE /\ requestCounter' = NextCounter(requestCounter)
             /\ issuedIds' = Append(issuedIds, id)
             /\ IF base[i].type = "http"
                THEN /\ calls' = Append(calls, NewCall(serverName, i, id,
                                            origin, dInst, "NotImplemented"))
                     /\ inst' = base
                ELSE /\ calls' = Append(calls, NewCall(serverName, i, id,
                                            origin, dInst, "pending"))
                     /\ inst' = [base EXCEPT
                            ![i].requestQueue =
                                Append(@, [id |-> id, call |-> c]),
                            ![i].respHandler =
                                @ \/ (~base[i].onData /\ ~base[i].initHandler),
                            ![i].written =
                                Append(@, [method |-> method, id |-> id])]

\* a caller of the API sends a tools/call request
ApiSendRequest(serverName) ==
    /\ Quiet
    /\ Len(calls) < MaxRequests
    /\ sendRequest(inst, serverName, "tools/call", "api", 0)
    /\ UNCHANGED <<cfgFallbackToMock, initialized, servers, initRun,
                   microtask, now, ticks>>
    /\ UNCHANGED <<rateLimitCounters, concurrentRequests, auditLog,
                   fallbackToMocks, toolCalls, resumeQ, lastCall, policy>>

\* the settle timer of instance i fires: discoverServerTools(server)
DiscoverTimerFires(i) ==
    /\ Quiet
    /\ inst[i].discoverTimer
    /\ Len(calls) < MaxRequests
    /\ sendRequest([inst EXCEPT ![i].discoverTimer = FALSE], inst[i].name,
                   "tools/list", "discover", i)
    /\ UNCHANGED <<cfgFallbackToMock, initialized, servers, initRun,
                   microtask, now, ticks>>
    /\ UNCHANGED <<rateLimitCounters, concurrentRequests, auditLog,
                   fallbackToMocks, toolCalls, resumeQ, lastCall, policy>>

\* a deadline handler that would answer with a mock when fallback is on
TimeoutHandlerWithFallback(call) ==
    [Settle(call, IF cfgFallbackToMock THEN "mock" ELSE "Timeout",
            "timer", NoId) EXCEPT !.timer = FALSE]

\* the deadline timer of call c fires: reject(new Error('Request timeout'))
TimeoutHandler(call) ==
    [Settle(call, "Timeout", "timer", NoId) EXCEPT !.timer = FALSE]

RequestTimeoutFires(c) ==
    /\ Quiet
    /\ calls[c].timer
    /\ calls' = [calls EXCEPT ![c] = TimeoutHandler(calls[c])]
    /\ UNCHANGED <<cfgFallbackToMock, initialized, requestCounter, servers,
                   inst, initRun, microtask, issuedIds, now, ticks>>
    /\ UNCHANGED <<rateLimitCounters, concurrentRequests, auditLog,
                   fallbackToMocks, toolCalls, resumeQ, lastCall, policy>>

\* cleanup(): kill every registered child, clear the map
Cleanup ==
    /\ Quiet
    /\ inst' = [i \in 1..Len(inst) |->
                   IF /\ servers[inst[i].name] = i
                      /\ inst[i].child = "running"
                   THEN [inst[i] EXCEPT !.killed = TRUE]
                   ELSE inst[i]]
    /\ servers' = [s \in BrokerServers |-> 0]
    /\ initialized' = FALSE
    /\ UNCHANGED <<cfgFallbackToMock, requestCounter, calls, initRun,
                   microtask, issuedIds, now, ticks>>
    /\ UNCHANGED <<rateLimitCounters, concurrentRequests, auditLog,
                   fallbackToMocks, toolCalls, resumeQ, lastCall, policy>>

BrokerInit ==
    /\ cfgFallbackToMock \in BOOLEAN
    /\ initialized = FALSE
    /\ requestCounter = 0
    /\ servers = [s \in BrokerServers |-> 0]
    /\ inst = <<>>
    /\ calls = <<>>
    /\ initRun = IdleRun
    /\ microtask = NoTask
    /\ issuedIds = <<>>

----------------------------------------------------------------------------
(* LocalRuntimeManager: the tool proxy of createMCPToolProxy               *)

createLegacyMockResponse(serverName, toolName) ==
    [kind |-> "mock", server |-> serverName, method |-> toolName,
     reason |-> ""]

AccessDenied(reason) ==
    [kind |-> "AccessDenied", server |-> "", method |-> "", reason |-> reason]

NoResult == [kind |-> "none", server |-> "", method |-> "", reason |-> ""]

\* The proxy function up to `await validateToolCall(...)`: validateToolCall
\* has no await of its own, so the checks and the audit entry happen here.
ProxyCall(serverName, toolName, params, context) ==
    /\ microtask = NoTask
    /\ Len(toolCalls) < MaxCalls
    /\ LET v == validateToolCall(rateLimitCounters, concurrentRequests,
                    auditLog, context, serverName, toolName, params, now)
       IN  /\ rateLimitCounters' = v.counters
           /\ auditLog' = v.log
           /\ toolCalls' = Append(toolCalls,
                  [server |-> serverName, tool |-> toolName,
                   allowed |-> v.allowed, reason |-> v.reason,
                   pc |-> "validated", available |-> FALSE,
                   begins |-> 0, ends |-> 0, result |-> NoResult])
    /\ resumeQ' = Append(resumeQ, Len(toolCalls) + 1)
    /\ UNCHANGED <<concurrentRequests, fallbackToMocks, now, ticks, lastCall, policy>>
    /\ UNCHANGED brokerVars

\* !this.fallbackToMocks && this.mcpClient.isServerAvailable(serverName)
UseRealServer(serverName) ==
    ~fallbackToMocks /\ isServerAvailable(serverName)

\* a denial thrown inside the inner try: the finally block would run
ThrowAccessDeniedInFinally(c) ==
    /\ toolCalls' = [toolCalls EXCEPT
           ![c].pc = "done",
           ![c].ends = @ + 1,
           ![c].result =
               IF fallbackToMocks
               THEN createLegacyMockResponse(toolCalls[c].server,
                                             toolCalls[c].tool)
               ELSE AccessDenied(toolCalls[c].reason)]
    /\ concurrentRequests' =
           trackRequestEnd(concurrentRequests, toolCalls[c].server)

\* throw new Error('Access denied: ...'): thrown before trackRequestStart
\* and outside the inner try, caught by the outer catch
ThrowAccessDenied(c) ==
    /\ toolCalls' = [toolCalls EXCEPT
           ![c].pc = "done",
           ![c].result =
               IF fallbackToMocks
               THEN createLegacyMockResponse(toolCalls[c].server,
                                             toolCalls[c].tool)
               ELSE AccessDenied(toolCalls[c].reason)]
    /\ UNCHANGED concurrentRequests

\* The proxy function after the await, to its return or its next await.
\* `available` records isServerAvailable(server) at that moment; `begins`
\* and `ends` count the call's trackRequestStart and trackRequestEnd.
ProxyResume ==
    /\ microtask = NoTask
    /\ resumeQ # <<>>
    /\ LET c == Head(resumeQ)
           call == toolCalls[c]
           started == trackRequestStart(concurrentRequests, call.server)
       IN  IF ~call.allowed
           THEN ThrowAccessDenied(c)
           ELSE IF UseRealServer(call.server)
                THEN \* await mcpClient.sendRequest(...): suspended again
                     /\ toolCalls' = [toolCalls EXCEPT
                            ![c].pc = "sent",
                            ![c].begins = @ + 1,
                            ![c].available = isServerAvailable(call.server)]
                     /\ concurrentRequests' = started
                ELSE \* mock reply, then the finally block
                     /\ toolCalls' = [toolCalls EXCEPT
                            ![c].pc = "done",
                            ![c].begins = @ + 1,
                            ![c].ends = @ + 1,
                            ![c].available = isServerAvailable(call.server),
                            ![c].result =
                                createLegacyMockResponse(call.server, call.tool)]
                     /\ concurrentRequests' =
                            trackRequestEnd(started, call.server)
    /\ resumeQ' = Tail(resumeQ)
    /\ UNCHANGED <<rateLimitCounters, auditLog, fallbackToMocks, now, ticks,
                   lastCall, policy>>
    /\ UNCHANGED brokerVars

\* the clock advances by one of `steps`, at most `limit` times
Advance(steps, limit) ==
    /\ ticks < limit
    /\ \E d \in steps : now' = now + d
    /\ ticks' = ticks + 1
    /\ UNCHANGED <<rateLimitCounters, concurrentRequests, auditLog,
                   fallbackToMocks, toolCalls, resumeQ, lastCall, policy>>
    /\ UNCHANGED brokerVars

OneMinute == TicksPerMinute

OneHour == TicksPerMinute * MinutesPerHour

\* the clock advances by a minute or by an hour
Tick ==
    /\ ticks < MaxTicks
    /\ \E d \in {OneMinute, OneHour} : now' = now + d
    /\ ticks' = ticks + 1
    /\ UNCHANGED <<rateLimitCounters, concurrentRequests, auditLog,
                   fallbackToMocks, toolCalls, resumeQ, lastCall, policy>>
    /\ UNCHANGED brokerVars

NoCall == [op |-> "none"]

ProxyInit ==
    /\ rateLimitCounters = <<>>
    /\ concurrentRequests = [s \in TrackedServers |-> 0]
    /\ auditLog = <<>>
    /\ fallbackToMocks = TRUE
    /\ toolCalls = <<>>
    /\ resumeQ = <<>>
    /\ now = 0
    /\ ticks = 0
    /\ lastCall = NoCall
    /\ policy = DefaultPolicy

Init == ProxyInit /\ BrokerInit

----------------------------------------------------------------------------
(* SecurityManager: its public methods called directly                     *)

ValidateToolCall(context, serverName, toolName, params) ==
    /\ LET v == validateToolCall(rateLimitCounters, concurrentRequests,
                    auditLog, context, serverName, toolName, params, now)
       IN  /\ rateLimitCounters' = v.counters
           /\ auditLog' = v.log
           /\ lastCall' = [op |-> "validateToolCall", context |-> context,
                           serverName |-> serverName, toolName |-> toolName,
                           params |-> params, allowed |-> v.allowed,
                           reason |-> v.reason]
    /\ UNCHANGED <<concurrentRequests, fallbackToMocks, toolCalls, resumeQ,
                   now, ticks, policy>>
    /\ UNCHANGED brokerVars

TrackRequestStart(serverName) ==
    /\ concurrentRequests[serverName] < MaxTracked
    /\ concurrentRequests' = trackRequestStart(concurrentRequests, serverName)
    /\ lastCall' = [op |-> "trackRequestStart", serverName |-> serverName,
                    before |-> concurrentRequests[serverName]]
    /\ UNCHANGED <<rateLimitCounters, auditLog, fallbackToMocks, toolCalls,
                   resumeQ, now, ticks, policy>>
    /\ UNCHANGED brokerVars

TrackRequestEnd(serverName) ==
    /\ concurrentRequests' = trackRequestEnd(concurrentRequests, serverName)
    /\ lastCall' = [op |-> "trackRequestEnd", serverName |-> serverName,
                    before |-> concurrentRequests[serverName]]
    /\ UNCHANGED <<rateLimitCounters, auditLog, fallbackToMocks, toolCalls,
                   resumeQ, now, ticks, policy>>
    /\ UNCHANGED brokerVars

\* updatePolicy(updates)
UpdatePolicy(updates) ==
    /\ policy' = updatePolicy(policy, updates)
    /\ lastCall' = [op |-> "updatePolicy", updates |-> updates]
    /\ UNCHANGED <<rateLimitCounters, concurrentRequests, auditLog,
                   fallbackToMocks, toolCalls, resumeQ, now, ticks>>
    /\ UNCHANGED brokerVars

\* the child events and timers of the transport
TransportNext ==
    \/ InitResume
    \/ \E i \in 1..Len(inst) : \E chunk \in LineChunks(i) : StdoutData(i, chunk)
    \/ \E i \in 1..Len(inst), code \in {0, 1} : ChildExit(i, code)
    \/ \E i \in 1..Len(inst) : ProcessError(i)
    \/ \E i \in 1..Len(inst) : InitTimeoutFires(i)
    \/ \E i \in 1..Len(inst) : DiscoverTimerFires(i)
    \/ \E c \in 1..Len(calls) : RequestTimeoutFires(c)

\* One life of a Broker with one stdio server: initialize on the fresh
\* manager, then API calls, child events, timers and cleanup in any order.
BrokerNext ==
    \/ \E cfg \in OneStdioServer : inst = <<>> /\ Initialize(cfg)
    \/ TransportNext
    \/ \E s \in BrokerServers : ApiSendRequest(s)
    \/ Cleanup

Spec == Init /\ [][BrokerNext]_vars

\* a clean payload, and a context with every permission
CleanParams == Query(<<"hi">>, 0)

FullContext == [hosts |-> TRUE, files |-> TRUE]

\* the calls executed code makes: one the policy accepts, and one for each
\* way of being denied before the rate check or by the payload check
ProxyCallChoices ==
    { [server |-> "helpscout", tool |-> "searchConversations",
       params |-> CleanParams, context |-> FullContext],
      [server |-> "helpscout", tool |-> "searchConversations",
       params |-> Query(<<"java", "script:">>, 0), context |-> FullContext],
      [server |-> "helpscout", tool |-> "searchConversations",
       params |-> CleanParams,
       context |-> [hosts |-> FALSE, files |-> TRUE]],
      [server |-> "helpscout", tool |-> "invalid_method",
       params |-> CleanParams, context |-> FullContext],
      [server |-> "WordPressAPI", tool |-> "searchConversations",
       params |-> CleanParams, context |-> FullContext] }

ProxyNext ==
    \/ \E c \in ProxyCallChoices :
          ProxyCall(c.server, c.tool, c.params, c.context)
    \/ ProxyResume
    \/ Tick

\* The Policy Engine and the proxies alone: executed code calls tools while
\* the Broker has no server registered.
SpecProxy == Init /\ [][ProxyNext]_vars

\* validations of one life of the rate counters: a window's worth and one more
MaxValidations == RequestsPerMinute + 1

\* a call every check accepts, and one denied before the rate check
PolicyCallChoices ==
    { [server |-> "helpscout", tool |-> "searchConversations",
       params |-> CleanParams, context |-> FullContext],
      [server |-> "helpscout", tool |-> "invalid_method",
       params |-> CleanParams, context |-> FullContext] }

\* A user of the SecurityManager: validations, request begins and ends in
\* any order (an end without a begin included), and the clock advancing.
PolicyNext ==
    \/ \E c \in PolicyCallChoices :
          /\ Len(auditLog) < MaxValidations
          /\ ValidateToolCall(c.context, c.server, c.tool, c.params)
    \/ \E s \in {"helpscout"} : TrackRequestStart(s)
    \/ \E s \in {"helpscout"} : TrackRequestEnd(s)
    \/ Tick

SpecPolicy == Init /\ [][PolicyNext]_vars

\* The rate counters of one server over time: validations, with the clock
\* advancing by one reading or by an hour between them.
WindowNext ==
    \/ \E c \in PolicyCallChoices :
          /\ Len(auditLog) < MaxValidations
          /\ ValidateToolCall(c.context, c.server, c.tool, c.params)
    \/ Advance({1, OneHour}, MaxTicks + 1)

SpecWindow == Init /\ [][WindowNext]_vars

\* calls in which every check after the first failing one fails as well, and
\* calls that get to the payload check with each kind of params
CheckCallChoices ==
    {c \in [server : ProxyServers, tool : ToolNames, params : ParamsSet,
             context : ContextSet] :
        /\ c.context.files
        /\ c.server = "WordPressAPI" => c.tool = "invalid_method"
        /\ c.tool = "invalid_method" => ~c.context.hosts
        /\ ~c.context.hosts => c.params = Query(<<"java", "script:">>, 0)}

\* The checks of validateToolCall in front of counters in every condition:
\* validations up to a full window, and requests begun up to the ceiling.
ChecksNext ==
    \/ \E c \in CheckCallChoices :
          /\ Len(auditLog) < MaxValidations
          /\ ValidateToolCall(c.context, c.server, c.tool, c.params)
    \/ \E s \in {"helpscout"} : TrackRequestStart(s)

SpecChecks == Init /\ [][ChecksNext]_vars

\* the updates an embedder passes to updatePolicy: a tools table with a
\* wildcard entry and a shorter list that leaves the other servers without
\* an entry, a servers list naming a server the default table has no entry
\* for, and the defaults again
PolicyUpdates ==
    { [allowedTools |->
           [s \in TrackedServers |->
               CASE s = "helpscout" -> Wildcard
                 [] s = "wordpress" -> ToolList({"get_site_info"})
                 [] OTHER -> NoEntry]],
      [allowedServers |-> {"helpscout", "WordPressAPI"}],
      DefaultPolicy }

\* calls on a listed and on an unlisted tool, and on a server outside the
\* default lists
AllowCallChoices ==
    { [server |-> "helpscout", tool |-> "searchConversations"],
      [server |-> "helpscout", tool |-> "invalid_method"],
      [server |-> "wordpress", tool |-> "searchConversations"],
      [server |-> "WordPressAPI", tool |-> "searchConversations"] }

\* The allow-lists under every policy: policy updates and validations of
\* clean calls with every permission, in any order.
AllowNext ==
    \/ \E u \in PolicyUpdates : UpdatePolicy(u)
    \/ \E c \in AllowCallChoices :
          /\ Len(auditLog) < MaxCalls
          /\ ValidateToolCall(FullContext, c.server, c.tool, CleanParams)

SpecAllow == Init /\ [][AllowNext]_vars

\* the words string arguments are made of: harmless text and the pieces of
\* the patterns sanitizeInputs removes
StringWords ==
    {"hi", "java", "vb", "script:", "data:", "onload", "<script>",
     "</script>"}

Strings ==
    {JString(w, 0) : w \in UNION {[1..n -> StringWords] : n \in 0..MaxWords}}

\* a string argument at the top level, in a nested object, as a direct
\* element of an array (the tags of store_memory) and in an object of an
\* array
StringPayloads ==
    UNION { { JObject(<<Field(<<"content">>, str)>>),
              JObject(<<Field(<<"meta">>,
                              JObject(<<Field(<<"note">>, str)>>))>>),
              JObject(<<Field(<<"tags">>, JArray(<<str>>))>>),
              JObject(<<Field(<<"items">>,
                              JArray(<<JObject(<<Field(<<"note">>,
                                                       str)>>)>>))>>) }
            : str \in Strings }

KeyChoices ==
    {<<"note">>, <<"Password">>, <<"api", "Key">>, <<"auth", "Token">>}

SecretChoices ==
    {JString(<<"hunter2">>, 0),
     JObject(<<Field(<<"note">>, JString(<<"hunter2">>, 0))>>)}

\* a value under a key that may be sensitive: at the top level, in a nested
\* object, in an object of an array, and in an array of an array
KeyedPayloads ==
    UNION { { JObject(<<Field(k, v)>>),
              JObject(<<Field(<<"meta">>, JObject(<<Field(k, v)>>))>>),
              JObject(<<Field(<<"items">>,
                              JArray(<<JObject(<<Field(k, v)>>)>>))>>),
              JObject(<<Field(<<"items">>,
                              JArray(<<JArray(<<JObject(<<Field(k,
                                                               v)>>)>>)>>))>>) }
            : k \in KeyChoices, v \in SecretChoices }

Content(run) == JObject(<<Field(<<"content">>, JString(<<>>, run))>>)

\* {content: 'xxx...'} that serializes to `size` characters
PaddedTo(size) == Content(size - TextLength(JSONstringify(Content(0))))

SizedPayloads ==
    {PaddedTo(MaxPayloadSize - 1), PaddedTo(MaxPayloadSize),
     PaddedTo(MaxPayloadSize + 1), PaddedTo(2 * MaxPayloadSize)}

PayloadSet == StringPayloads \cup KeyedPayloads \cup SizedPayloads

\* The payload checks and the redaction applied to one argument object:
\* one validation of automem.store_memory on a fresh SecurityManager.
PayloadNext ==
    \E params \in PayloadSet :
        /\ auditLog = <<>>
        /\ ValidateToolCall(FullContext, "automem", "store_memory", params)

SpecPayload == Init /\ [][PayloadNext]_vars

\* clock readings of a run that fills the audit log and goes on
MaxLogged == AuditLogCap + 2

\* The audit log over a long run: one accepted validation at every reading
\* of the clock, the clock advancing by one reading after each.
AuditNext ==
    \/ /\ IF auditLog = <<>> THEN TRUE
          ELSE auditLog[Len(auditLog)].timestamp < now
       /\ ValidateToolCall(FullContext, "wordpress", "get_site_info",
                           JObject(<<>>))
    \/ /\ auditLog # <<>> /\ auditLog[Len(auditLog)].timestamp = now
       /\ Advance({1}, MaxLogged)

SpecAudit == Init /\ [][AuditNext]_vars

\* The proxies in front of a Broker that brings one stdio server up:
\* executed code calls tools with clean arguments at any point of the startup.
DispatchNext ==
    \/ \E cfg \in OneStdioServer : inst = <<>> /\ Initialize(cfg)
    \/ InitResume
    \/ \E i \in 1..Len(inst) : \E chunk \in LineChunks(i) : StdoutData(i, chunk)
    \/ \E i \in 1..Len(inst), code \in {0, 1} : ChildExit(i, code)
    \/ \E s \in ProxyServers, t \in ToolNames :
          ProxyCall(s, t, CleanParams, FullContext)
    \/ ProxyResume

SpecDispatch == Init /\ [][DispatchNext]_vars

\* The reader of one stdio server: the server is brought up, callers send
\* requests, and the child's output arrives cut into chunks in every way.
FramingNext ==
    \/ \E cfg \in OneStdioServer : inst = <<>> /\ Initialize(cfg)
    \/ InitResume
    \/ \E i \in 1..Len(inst) : \E chunk \in Chunks(i) : StdoutData(i, chunk)
    \/ \E s \in BrokerServers : ApiSendRequest(s)
    \/ \E c \in 1..Len(calls) : RequestTimeoutFires(c)

SpecFraming == Init /\ [][FramingNext]_vars

\* Broker lives in sequence: initialize and cleanup repeated on one stdio
\* server whose child answers the handshake, API calls before and after the
\* server is ready, tool discovery, and the clock advancing between lives.
LifecycleNext ==
    \/ \E cfg \in OneStdioServer : Initialize(cfg)
    \/ InitResume
    \/ \E i \in 1..Len(inst) :
          StdoutData(i, [kind |-> "reply", id |-> inst[i].initId,
                         error |-> FALSE, newline |-> TRUE,
                         tools |-> FALSE])
    \/ \E i \in 1..Len(inst) : DiscoverTimerFires(i)
    \/ \E s \in BrokerServers : ApiSendRequest(s)
    \/ Cleanup
    \/ (~initialized /\ initRun.pc = "idle"
           /\ Advance({OneMinute}, MaxTicks))

SpecLifecycle == Init /\ [][LifecycleNext]_vars

\* Startup: initialize called, once or again, with one or two servers whose
\* children write, stay silent, exit or fail to spawn in any order.
StartupNext ==
    \/ \E cfg \in ConfigChoices : Initialize(cfg)
    \/ InitResume
    \/ \E i \in 1..Len(inst) : \E chunk \in LineChunks(i) : StdoutData(i, chunk)
    \/ \E i \in 1..Len(inst), code \in {0, 1} : ChildExit(i, code)
    \/ \E i \in 1..Len(inst) : ProcessError(i)
    \/ \E i \in 1..Len(inst) : InitTimeoutFires(i)

\* The event loop runs a due continuation and fires an armed timer; a child
\* owes nothing: it may never write and never exit.
StartupFairness ==
    /\ WF_vars(InitResume)
    /\ WF_vars(\E i \in 1..Len(inst) : InitTimeoutFires(i))

SpecStartup == Init /\ [][StartupNext]_vars /\ StartupFairness

\* The event loop fires every armed request timer (setTimeout of
\* sendStdioRequest) and runs a due continuation; the child owes nothing.
RequestFairness ==
    /\ WF_vars(InitResume)
    /\ WF_vars(\E c \in 1..Len(calls) : RequestTimeoutFires(c))

\* One life of a Broker with one stdio server, with the timers of the event
\* loop firing.
SpecRequests == Init /\ [][BrokerNext]_vars /\ RequestFairness

\* Shutdown: Broker lives on one stdio server, each ended by cleanup, with
\* children that answer the handshake and exit when they choose.
ShutdownNext ==
    \/ \E cfg \in OneStdioServer : Initialize(cfg)
    \/ InitResume
    \/ \E i \in 1..Len(inst) :
          StdoutData(i, [kind |-> "reply", id |-> inst[i].initId,
                         error |-> FALSE, newline |-> TRUE,
                         tools |-> FALSE])
    \/ \E i \in 1..Len(inst), code \in {0, 1} : ChildExit(i, code)
    \/ \E i \in 1..Len(inst) : InitTimeoutFires(i)
    \/ \E s \in BrokerServers : ApiSendRequest(s)
    \/ \E c \in 1..Len(calls) : RequestTimeoutFires(c)
    \/ Cleanup

\* The first child honours the terminate signal: once signalled it exits.
\* Later children may ignore it.
FirstChildHonoursTerminate ==
    WF_vars(IF inst # <<>> /\ inst[1].killed THEN ChildExit(1, 1) ELSE FALSE)

SpecShutdown ==
    Init /\ [][ShutdownNext]_vars /\ StartupFairness
         /\ FirstChildHonoursTerminate

----------------------------------------------------------------------------
(* Properties                                                              *)

\* the proxy calls that passed the policy checks and have not returned
InFlight(serverName) ==
    {c \in 1..Len(toolCalls) :
        /\ toolCalls[c].server = serverName
        /\ toolCalls[c].allowed
        /\ toolCalls[c].pc # "done"}

\* C1: for every server, the number of calls that were accepted and have
\* not ended never exceeds the server's max_concurrent; of three overlapping
\* calls to a server with max_concurrent 2 the third is denied.
C1_ConcurrencyCeiling ==
    \A s \in ProxyServers :
        Cardinality(InFlight(s)) <= rateLimits(s).maxConcurrent

\* C2: a call the Policy Engine denied returns an AccessDenied failure that
\* carries the reason, never a mock reply, whatever the fallback setting.
C2_DenialSurfaced ==
    \A c \in 1..Len(toolCalls) :
        (toolCalls[c].pc = "done" /\ ~toolCalls[c].allowed)
            => /\ toolCalls[c].result.kind = "AccessDenied"
               /\ toolCalls[c].result.reason = toolCalls[c].reason

\* C3: a call the policy accepted, dispatched while its server is ready, is
\* sent to the server (a tools/call request is written) and does not return
\* a mock reply.
C3_ReadyServerIsCalled ==
    \A c \in 1..Len(toolCalls) :
        (toolCalls[c].allowed /\ toolCalls[c].available)
            => /\ toolCalls[c].pc # "validated"
               /\ toolCalls[c].result.kind # "mock"

\* C4: a call whose deadline timer fired before a matching reply arrived
\* has the outcome Timeout, and keeps it: the timeout is never replaced by a
\* mock reply, with fallback on or off.
C4_TimeoutSurfaced ==
    \A c \in 1..Len(calls) :
        calls[c].by = "timer" => calls[c].outcome = "Timeout"

C4_Witness ==
    \E c \in 1..Len(calls) :
        /\ cfgFallbackToMock
        /\ calls[c].origin = "api"
        /\ calls[c].by = "timer"
        /\ calls[c].outcome = "Timeout"

\* C5: a call is resolved at most once: once it has an outcome, no later
\* event (a late reply, the timer, the child's exit, cleanup) changes the
\* outcome or what produced it; and what resolves a call that waited is a
\* reply, its timer or the teardown.
C5_ResolvedOnce ==
    [][\A c \in 1..Len(calls) :
          /\ calls[c].outcome # "pending"
                => /\ calls'[c].outcome = calls[c].outcome
                   /\ calls'[c].by = calls[c].by
                   /\ calls'[c].replyId = calls[c].replyId
          /\ (calls[c].outcome = "pending" /\ calls'[c].outcome # "pending")
                => calls'[c].by \in {"reply", "timer", "teardown"}]_vars

\* a call that timed out and whose reply came afterwards: the late reply
\* found the entry of the call and took it out of the table
C5_Witness ==
    \E c \in 1..Len(calls) :
        /\ calls[c].outcome = "Timeout"
        /\ calls[c].inst # 0
        /\ inst[calls[c].inst].respHandler
        /\ \A k \in 1..Len(inst[calls[c].inst].requestQueue) :
              inst[calls[c].inst].requestQueue[k].call # c

\* the calls with an entry in the pending table of instance i
Queued(i) ==
    {inst[i].requestQueue[k].call : k \in 1..Len(inst[i].requestQueue)}

\* C6: the pending table holds an entry for a request exactly while the
\* request is unresolved: an entry's call is pending, and a resolved call
\* (by reply, timeout or teardown) has no entry.
C6_EntryWhileUnresolved ==
    \A i \in 1..Len(inst) :
        \A c \in Queued(i) : calls[c].outcome = "pending"

\* C7: a reply whose id equals the id of a pending request is delivered to
\* that request and to no other: a call that saw its reply arrive is
\* resolved by it, and a call resolved by a reply was resolved by the reply
\* with its own id.
C7_ReplyDelivered ==
    \A c \in 1..Len(calls) :
        /\ calls[c].replySeen
              => /\ calls[c].by = "reply"
                 /\ SameId(calls[c].replyId, calls[c].id)
        /\ calls[c].by = "reply" => SameId(calls[c].replyId, calls[c].id)

\* the frame answers no request that is waiting on instance i: neither a
\* pending call nor the handshake
Unmatched(i, chunk) ==
    /\ chunk.kind \in {"reply", "notification"}
    /\ ~(inst[i].initHandler /\ SameId(chunk.id, inst[i].initId))
    /\ \A c \in 1..Len(calls) :
          (calls[c].inst = i /\ calls[c].outcome = "pending")
              => ~SameId(calls[c].id, chunk.id)

\* C8: a frame whose id matches no pending request (an unknown id, a
\* notification, a late reply to a call that timed out) is dropped: the
\* pending table, the server's status and every call's outcome are as
\* before.
C8_UnmatchedDropped ==
    [][\A i \in 1..Len(inst) : \A chunk \in LineChunks(i) :
          (StdoutData(i, chunk) /\ Unmatched(i, chunk))
              => /\ inst'[i].requestQueue = inst[i].requestQueue
                 /\ inst'[i].status = inst[i].status
                 /\ \A c \in 1..Len(calls) :
                       calls'[c].outcome = calls[c].outcome]_vars

\* C9: the request ids are pairwise distinct and strictly increasing in the
\* order they were issued, over handshakes, tool calls and mock replies and
\* over cleanup followed by initialize; no pending table holds two entries
\* with one id.
C9_IdsDistinctIncreasing ==
    /\ \A j \in 1..Len(issuedIds) : \A k \in 1..Len(issuedIds) :
          j < k => /\ issuedIds[j].n < issuedIds[k].n
                   /\ ~SameId(issuedIds[j], issuedIds[k])
    /\ \A i \in 1..Len(inst) :
          \A j \in 1..Len(inst[i].requestQueue) :
             \A k \in 1..Len(inst[i].requestQueue) :
                j # k => ~SameId(inst[i].requestQueue[j].id,
                                 inst[i].requestQueue[k].id)

\* ids of two handshakes, one before and one after a cleanup, of a mock
\* reply and of a request that waits in the pending table
C9_Witness ==
    /\ Len(inst) = 2
    /\ inst[1].initId # NoId
    /\ inst[2].initId # NoId
    /\ inst[1].name = inst[2].name
    /\ \E c \in 1..Len(calls) : calls[c].outcome = "mock"
    /\ \E c \in 1..Len(calls) : calls[c].outcome = "pending"
    /\ Len(issuedIds) = 4

\* C10: when a child exits with calls in flight, each of them is resolved
\* with ServerExited by the exit itself.
C10_ExitFailsInFlight ==
    [][\A i \in 1..Len(inst), code \in {0, 1} :
          ChildExit(i, code)
              => \A c \in 1..Len(calls) :
                    (calls[c].inst = i /\ calls[c].outcome = "pending")
                        => calls'[c].outcome = "ServerExited"]_vars

\* C11: after the child of a stdio server has exited, with any exit code,
\* the server's status is error (so is_ready is false and later calls are
\* answered with ServerUnavailable or a mock), and nothing is written to
\* the dead child.
C11_ExitedServerIsError ==
    \A i \in 1..Len(inst) :
        inst[i].child = "exited"
            => /\ inst[i].status = "error"
               /\ Len(inst[i].written) = inst[i].exitMark

\* C12: a stdio server is ready only after the reply with the id of its
\* initialize request has been received; no other output of the child (a
\* log line, a notification, a reply with another id) makes it ready.
C12_ReadyOnlyAfterHandshake ==
    \A i \in 1..Len(inst) :
        (inst[i].type = "stdio" /\ inst[i].status = "ready")
            => ~inst[i].initHandler

\* C13: a server's status moves only starting -> ready, starting -> error
\* and ready -> error (and to stopped); error and stopped are terminal: a
\* server set to error never becomes ready, in any order of the exit event,
\* the stdout data events and the startup continuation.
C13_StatusMovesForward ==
    [][\A i \in 1..Len(inst) :
          \/ inst'[i].status = inst[i].status
          \/ inst'[i].status = "stopped"
          \/ inst[i].status = "starting" /\ inst'[i].status \in {"ready", "error"}
          \/ inst[i].status = "ready" /\ inst'[i].status = "error"]_vars

\* C14: initialize always completes, whatever the children do: one that
\* never writes, one that exits at startup with a zero or non-zero code
\* before replying, one that writes only output that is not the reply.
C14_InitializeCompletes ==
    (initRun.pc = "running") ~> (initRun.pc = "idle")

\* the start of instance i failed and initializeServer has caught it
StartFailed(i) ==
    /\ inst[i].startPromise = "rejected"
    /\ ~(microtask.kind = "startFailed" /\ microtask.inst = i)

C16_InitializeIdempotent ==
    [][\A cfg \in ConfigChoices :
          (initialized /\ Initialize(cfg))
              => UNCHANGED <<inst, servers, calls, requestCounter, issuedIds,
                             microtask, initialized>>]_vars

\* initialize was called again after it had succeeded
C16_Witness ==
    /\ initialized
    /\ initRun.last = "noop"
    /\ \E i \in 1..Len(inst) : inst[i].status = "ready"

\* the calls sendRequest answered itself because the server was not ready
AnsweredNotReady ==
    {c \in 1..Len(calls) : calls[c].outcome \in {"mock", "ServerUnavailable"}}

\* C17: a call to a registered server that is not ready returns, with
\* fallbackToMock, a mock reply that is marked as a mock and echoes the
\* server name, the tool name and the caller's params, and otherwise fails
\* with ServerUnavailable; either way nothing is written to the server and
\* no pending entry is made.
C17_MockWhenNotReady ==
    \A c \in AnsweredNotReady :
        /\ calls[c].outcome = IF cfgFallbackToMock THEN "mock"
                              ELSE "ServerUnavailable"
        /\ c \notin Queued(calls[c].inst)
        /\ \A k \in 1..Len(inst[calls[c].inst].written) :
              inst[calls[c].inst].written[k].method \in {"tools/call",
                                                         "tools/list"}
                  => ~SameId(inst[calls[c].inst].written[k].id, calls[c].id)
        /\ calls[c].outcome = "mock"
              => /\ calls[c].result.mock
                 /\ calls[c].result.params = RequestParams(calls[c].origin)
                 /\ calls[c].result.params.name = RequestParams(calls[c].origin).name
                 /\ "server" \in DOMAIN calls[c].result
                 /\ calls[c].result["server"] = calls[c].server

\* C18: cleanup signals every live child, fails every call in flight at
\* that moment with ServerClosed, and empties the registry, so that no call
\* is left unresolved.
C18_CleanupDrains ==
    [][Cleanup
         => /\ \A s \in BrokerServers : servers'[s] = 0
            /\ \A c \in 1..Len(calls) :
                  calls[c].outcome = "pending"
                      => calls'[c].outcome = "ServerClosed"]_vars

\* cleanup has sent the terminate signal to child i
Signalled(i) == IF Len(inst) >= i THEN inst[i].killed ELSE FALSE

\* child i is not running
Dead(i) == IF Len(inst) >= i THEN inst[i].child # "running" ELSE FALSE

\* C19: after cleanup every child the Broker started is eventually dead,
\* also a child that ignores the terminate signal.
C19_ChildrenDie ==
    \A i \in 1..MaxInst : Signalled(i) ~> Dead(i)

\* C20: a call the policy accepted performs exactly one request begin and
\* exactly one request end on its server, whichever way it ends; so when no
\* call is in flight on a server, the server's concurrency counter is 0.
C20_BeginEndPaired ==
    /\ \A c \in 1..Len(toolCalls) :
          /\ toolCalls[c].ends <= toolCalls[c].begins
          /\ toolCalls[c].begins <= 1
          /\ (toolCalls[c].allowed /\ toolCalls[c].pc = "done")
                => toolCalls[c].begins = 1 /\ toolCalls[c].ends = 1
    /\ \A s \in ProxyServers :
          (\A c \in 1..Len(toolCalls) :
               toolCalls[c].server = s => toolCalls[c].pc = "done")
              => concurrentRequests[s] = 0

\* two accepted calls to one server have returned
C20_Witness ==
    \E c1 \in 1..Len(toolCalls), c2 \in 1..Len(toolCalls) :
        /\ c1 < c2
        /\ toolCalls[c1].server = toolCalls[c2].server
        /\ toolCalls[c1].allowed /\ toolCalls[c1].pc = "done"
        /\ toolCalls[c2].allowed /\ toolCalls[c2].pc = "done"
        /\ concurrentRequests[toolCalls[c1].server] = 0

----------------------------------------------------------------------------
(* Policy Engine: counters, rate windows, audit log, payload checks        *)

\* C21: the concurrency counter of every server is at least 0 after any
\* sequence of request begins, request ends and validations, a request end
\* that no begin preceded included.
C21_CounterNonNegative ==
    \A s \in TrackedServers : concurrentRequests[s] >= 0

\* trackRequestEnd was called on a counter at 0 and left it at 0
C21_Witness ==
    /\ lastCall.op = "trackRequestEnd"
    /\ lastCall.before = 0
    /\ concurrentRequests[lastCall.serverName] = 0

\* the audit entry records a call that got as far as the rate check
ReachedRateCheck(entry) ==
    entry.reason \notin {"Server not in allowed list",
                         "Tool not allowed on server",
                         "Insufficient runtime permissions"}

\* the times at which the calls of the log for serverName got to the rate
\* check, in order
RECURSIVE RateCheckTimes(_, _)
RateCheckTimes(log, serverName) ==
    IF log = <<>>
    THEN <<>>
    ELSE LET rest == RateCheckTimes(SubSeq(log, 1, Len(log) - 1), serverName)
             last == log[Len(log)]
         IN  IF last.serverName = serverName /\ ReachedRateCheck(last)
             THEN Append(rest, last.timestamp)
             ELSE rest

\* The rate window as the counter is described: it opens with the first
\* request, holds the requests of the next 60 seconds, and the first request
\* after that opens the next one.  [start, count] after the requests at
\* `times`.
RECURSIVE RateWindow(_)
RateWindow(times) ==
    IF times = <<>>
    THEN [start |-> 0, count |-> 0]
    ELSE LET before == RateWindow(SubSeq(times, 1, Len(times) - 1))
             t == times[Len(times)]
         IN  IF before.count = 0 \/ t - before.start > OneMinute
             THEN [start |-> t, count |-> 1]
             ELSE [start |-> before.start, count |-> before.count + 1]

\* C22: within one rate window with limit N the first N requests that get to
\* the rate check pass the per-minute test, and request N+1 and every later
\* one is denied with the rate-limit reason.
C22_WindowAdmitsN ==
    [][Len(auditLog') = Len(auditLog) + 1 =>
          LET e == auditLog'[Len(auditLog')]
              s == e.serverName
              w == RateWindow(RateCheckTimes(auditLog', s))
              N == rateLimits(s).requestsPerMinute
          IN  ReachedRateCheck(e) =>
                /\ (w.count <= N
                       /\ concurrentRequests[s] < rateLimits(s).maxConcurrent)
                      => e.reason # "Rate limit exceeded"
                /\ w.count > N
                      => e.result = "denied"
                            /\ e.reason = "Rate limit exceeded"]_vars

\* C23: the window counter is reset whenever the stored window start is more
\* than 60 seconds old: a request that arrives more than 60 seconds after
\* the window start is never denied for the old window's count, also when
\* that window was full and no request came in between.
C23_ExpiredWindowReset ==
    [][Len(auditLog') = Len(auditLog) + 1 =>
          LET e == auditLog'[Len(auditLog')]
              s == e.serverName
              old == RateWindow(RateCheckTimes(auditLog, s))
          IN  (/\ ReachedRateCheck(e)
               /\ old.count > 0
               /\ now - old.start > OneMinute
               /\ concurrentRequests[s] < rateLimits(s).maxConcurrent)
                  => e.reason # "Rate limit exceeded"]_vars

\* C24: with audit logging enabled every call through a tool proxy leaves
\* exactly one audit entry, whose outcome is success, denied or error and
\* whose duration is set whenever the outcome is not denied.
C24_AuditCoverage ==
    auditLogging =>
        /\ Len(auditLog) = Len(toolCalls)
        /\ \A i \in 1..Len(auditLog) :
              /\ auditLog[i].result \in {"success", "denied", "error"}
              /\ auditLog[i].result # "denied"
                    => "duration" \in DOMAIN auditLog[i]

\* the number of validations made when one is made at every clock reading
Logged ==
    IF auditLog # <<>> /\ auditLog[Len(auditLog)].timestamp = now
    THEN now + 1
    ELSE now

\* C25: the audit log holds at most 1000 entries, and they are the most
\* recent min(n, 1000) of the n entries logged, in the order they were
\* logged.  (The entry logged at reading t carries timestamp t.)
C25_RingHoldsLatest ==
    /\ Len(auditLog) <= AuditLogCap
    /\ Len(auditLog) = Min({Logged, AuditLogCap})
    /\ \A i \in 1..Len(auditLog) :
          auditLog[i].timestamp = Logged - Len(auditLog) + i - 1

\* more than 1000 entries were logged and the oldest are gone
C25_Witness ==
    /\ Logged > AuditLogCap
    /\ Len(auditLog) = AuditLogCap
    /\ auditLog[1].timestamp = Logged - AuditLogCap

\* the key's name, compared without regard to case, matches a sensitive name
SensitiveName(key) ==
    \E i \in 1..Len(key) :
        key[i] \in {"password", "Password", "token", "Token", "secret",
                    "key", "Key", "auth", "credential"}

\* some key with a sensitive name, at any depth, holds something else than
\* the literal [REDACTED]
RECURSIVE Leaks(_)
Leaks(value) ==
    CASE value.type = "object" ->
             \E i \in 1..Len(value.fields) :
                 IF SensitiveName(value.fields[i].key)
                 THEN value.fields[i].value # JString(<<"[REDACTED]">>, 0)
                 ELSE Leaks(value.fields[i].value)
      [] value.type = "array" ->
             \E i \in 1..Len(value.items) : Leaks(value.items[i])
      [] OTHER -> FALSE

\* C26: no audit entry holds, at the top level or at any depth of its params
\* (in nested objects and in arrays), a value of the caller under a key
\* whose lower-cased name matches password, token, secret, key, auth or
\* credential: every such key holds the literal [REDACTED].
C26_SensitiveKeysRedacted ==
    \A i \in 1..Len(auditLog) : ~Leaks(auditLog[i].params)

\* the entry of a call whose argument had apiKey in an object of an array
C26_Witness ==
    /\ lastCall.op = "validateToolCall"
    /\ lastCall.params =
          JObject(<<Field(<<"items">>,
                          JArray(<<JObject(<<Field(<<"api", "Key">>,
                                        JString(<<"hunter2">>, 0))>>)>>))>>)
    /\ auditLog[1].params =
          JObject(<<Field(<<"items">>,
                          JObject(<<Field(<<"0">>,
                              JObject(<<Field(<<"api", "Key">>,
                                        JString(<<"[REDACTED]">>, 0))>>))>>))>>)

\* C27: sanitizing is idempotent, sanitize(sanitize(x)) = sanitize(x), also
\* for strings in which removing one pattern brings together the pieces of
\* another.
C27_SanitizeIdempotent ==
    lastCall.op = "validateToolCall" =>
        sanitizeInputs(sanitizeInputs(lastCall.params))
            = sanitizeInputs(lastCall.params)

\* C28: params that serialize to exactly maxPayloadSize characters pass the
\* size check, and params of maxPayloadSize + 1 characters are denied.
C28_SizeBoundary ==
    lastCall.op = "validateToolCall" =>
        LET length == TextLength(JSONstringify(lastCall.params))
        IN  /\ length <= MaxPayloadSize
                  => lastCall.reason # "Payload exceeds maximum size limit"
            /\ (length > MaxPayloadSize
                   /\ lastCall.reason \notin
                          {"Server not in allowed list",
                           "Tool not allowed on server",
                           "Insufficient runtime permissions",
                           "Rate limit exceeded"})
                  => ~lastCall.allowed
                        /\ lastCall.reason
                              = "Payload exceeds maximum size limit"

\* params of exactly maxPayloadSize characters were accepted
C28_Witness ==
    /\ lastCall.op = "validateToolCall"
    /\ TextLength(JSONstringify(lastCall.params)) = MaxPayloadSize
    /\ lastCall.allowed

\* the words hold one of the constructs on the denylist
ContainsDenylisted(words) ==
    \/ \E i \in 1..Len(words) : words[i] \in {"data:", "onload"}
    \/ \E i \in 1..Len(words) - 1 :
          words[i] \in {"java", "vb"} /\ words[i + 1] = "script:"
    \/ \E i \in 1..Len(words), j \in 1..Len(words) :
          i < j /\ words[i] = "<script>" /\ words[j] = "</script>"

RECURSIVE HasUnsafeLeaf(_)
HasUnsafeLeaf(value) ==
    CASE value.type = "string" -> ContainsDenylisted(value.words)
      [] value.type = "object" ->
             \E i \in 1..Len(value.fields) :
                 HasUnsafeLeaf(value.fields[i].value)
      [] value.type = "array" ->
             \E i \in 1..Len(value.items) : HasUnsafeLeaf(value.items[i])
      [] OTHER -> FALSE

\* C30: with sanitizeInputs enabled a call that gets to the payload check
\* within the size limit is denied as unsafe whenever a string at any depth
\* of its params holds a denylisted construct, strings in nested objects
\* and strings that are direct elements of an array included.
C30_UnsafeLeafDenied ==
    (/\ lastCall.op = "validateToolCall"
     /\ sanitizeInputsEnabled
     /\ HasUnsafeLeaf(lastCall.params)
     /\ lastCall.reason \notin {"Server not in allowed list",
                                "Tool not allowed on server",
                                "Insufficient runtime permissions",
                                "Rate limit exceeded",
                                "Payload exceeds maximum size limit"})
        => /\ ~lastCall.allowed
           /\ lastCall.reason = "Payload contains potentially unsafe content"

\* C29: the checks run in a fixed order (server allow-list, tool allow-list,
\* runtime permissions, rate limit with the per-minute test before the
\* concurrency test, payload) and stop at the first denial: the reason is
\* that of the first failing check, and a call denied by an allow-list or
\* by the permission check leaves the per-minute counter as it was.
C29_FirstFailingCheck ==
    [][(Len(auditLog') = Len(auditLog) + 1
          /\ lastCall'.op = "validateToolCall") =>
          LET c == lastCall'
              key == <<c.serverName, getMinutes(now)>>
              limits == rateLimits(c.serverName)
              serverOk == c.serverName \in allowedServers
              toolOk == c.toolName \in allowedTools(c.serverName)
              permOk == checkRuntimePermissions(c.context, c.serverName,
                                                c.toolName)
              minuteOk == IF key \in DOMAIN rateLimitCounters
                          THEN rateLimitCounters[key].count
                                   < limits.requestsPerMinute
                          ELSE TRUE
              concOk == concurrentRequests[c.serverName]
                            < limits.maxConcurrent
              expected ==
                  IF ~serverOk THEN "Server not in allowed list"
                  ELSE IF ~toolOk THEN "Tool not allowed on server"
                  ELSE IF ~permOk THEN "Insufficient runtime permissions"
                  ELSE IF ~minuteOk \/ ~concOk THEN "Rate limit exceeded"
                  ELSE validatePayload(c.params)
          IN  /\ c.reason = expected
              /\ c.allowed = (expected = "")
              /\ (~serverOk \/ ~toolOk \/ ~permOk \/ ~minuteOk)
                    => rateLimitCounters' = rateLimitCounters
              /\ (serverOk /\ toolOk /\ permOk /\ minuteOk /\ ~concOk)
                    => /\ key \in DOMAIN rateLimitCounters'
                       /\ rateLimitCounters'[key].count =
                             IF key \in DOMAIN rateLimitCounters
                             THEN rateLimitCounters[key].count + 1
                             ELSE 1]_vars

\* a call that fails the tool allow-list, the permission check and the
\* payload check was denied for the tool, with no counter touched
C29_Witness ==
    /\ lastCall.op = "validateToolCall"
    /\ lastCall.serverName = "helpscout"
    /\ lastCall.toolName = "invalid_method"
    /\ ~lastCall.context.hosts
    /\ validatePayload(lastCall.params) # ""
    /\ lastCall.reason = "Tool not allowed on server"
    /\ rateLimitCounters = <<>>

----------------------------------------------------------------------------
(* Policy Engine: allow-lists                                              *)

\* C31: a call is accepted only if its server is in allowed_servers and the
\* server's allowed_tools entry is the wildcard or a list containing the
\* tool; a server with no allowed_tools entry accepts no tool.
C31_AllowListed ==
    (lastCall.op = "validateToolCall" /\ lastCall.allowed) =>
        LET entry == policy.allowedTools[lastCall.serverName]
        IN  /\ lastCall.serverName \in policy.allowedServers
            /\ entry.kind # "undefined"
            /\ \/ entry.kind = "*"
               \/ entry.kind = "list" /\ lastCall.toolName \in entry.tools

\* a tool no list names is accepted through the wildcard entry
C31_Witness ==
    /\ lastCall.op = "validateToolCall"
    /\ lastCall.allowed
    /\ lastCall.toolName = "invalid_method"
    /\ policy.allowedTools[lastCall.serverName].kind = "*"


\* C32: the audit outcome of a call reflects how the call ended: an entry
\* says success only for a call that returned a reply, and a call the policy
\* accepted that ended in a timeout or a transport failure has an entry
\* that says error.  (Entry c of the log belongs to call c.)
C32_OutcomeReflectsEnd ==
    \A c \in 1..Len(toolCalls) :
        /\ auditLog[c].result = "success"
              => /\ toolCalls[c].pc = "done"
                 /\ toolCalls[c].result.kind \in {"reply", "mock"}
        /\ (/\ toolCalls[c].allowed
            /\ toolCalls[c].pc = "done"
            /\ toolCalls[c].result.kind \notin {"reply", "mock"})
              => auditLog[c].result = "error"


\* C38: a call denied by the policy performs neither request_begin nor
\* request_end: when the denied call returns, the concurrency counter of
\* every server is what it was before, and the call has begun and ended no
\* request.
C38_DeniedLeavesCounters ==
    [][\A c \in 1..Len(toolCalls) :
          (/\ ~toolCalls[c].allowed
           /\ toolCalls[c].pc = "validated"
           /\ toolCalls'[c].pc = "done")
              => /\ concurrentRequests' = concurrentRequests
                 /\ toolCalls'[c].begins = 0
                 /\ toolCalls'[c].ends = 0]_vars

\* a denied call has returned after an accepted call began and ended
C38_Witness ==
    \E c, d \in 1..Len(toolCalls) :
        /\ ~toolCalls[c].allowed
        /\ toolCalls[c].pc = "done"
        /\ toolCalls[c].ends = 0
        /\ toolCalls[d].allowed
        /\ toolCalls[d].begins = 1


----------------------------------------------------------------------------
(* Policy Engine: the per-minute budget of denied calls                    *)

\* the per-minute counter of the server at time t, 0 when there is none
Budget(counters, serverName, t) ==
    IF <<serverName, getMinutes(t)>> \in DOMAIN counters
    THEN counters[<<serverName, getMinutes(t)>>].count
    ELSE 0

\* the entries of the log for serverName that the rate check let through:
\* accepted calls and calls denied by payload validation
RECURSIVE PastRateCheck(_, _)
PastRateCheck(log, serverName) ==
    IF log = <<>>
    THEN 0
    ELSE LET last == log[Len(log)]
         IN  PastRateCheck(SubSeq(log, 1, Len(log) - 1), serverName)
             + (IF /\ last.serverName = serverName
                   /\ ReachedRateCheck(last)
                   /\ last.reason # "Rate limit exceeded"
                THEN 1 ELSE 0)

\* C39: a call that passes the per-minute test and is then denied by the
\* concurrency test or by payload validation has consumed one unit of the
\* server's per-minute budget; with limit N, after k such calls in a window
\* at most N - k further calls pass the rate check in that window.  (All
\* calls are made at one clock reading, inside one window.)
C39_DeniedStillCounts ==
    /\ [](\A s \in ProxyServers :
             /\ PastRateCheck(auditLog, s) <= Budget(rateLimitCounters, s, now)
             /\ Budget(rateLimitCounters, s, now)
                   <= rateLimits(s).requestsPerMinute)
    /\ [][Len(auditLog') = Len(auditLog) + 1 =>
            LET e == auditLog'[Len(auditLog')]
                s == e.serverName
                used == Budget(rateLimitCounters, s, now)
            IN  (/\ ReachedRateCheck(e)
                 /\ used < rateLimits(s).requestsPerMinute
                 /\ e.result = "denied")
                    => Budget(rateLimitCounters', s, now) = used + 1]_vars

\* the budget of a window is used up by calls of which one was denied by the
\* concurrency test and one by the payload check, and the next call is
\* denied by the per-minute test
C39_Witness ==
    /\ lastCall.op = "validateToolCall"
    /\ lastCall.reason = "Rate limit exceeded"
    /\ Len(auditLog) = RequestsPerMinute + 1
    /\ \A i \in 1..Len(auditLog) :
          auditLog[i].serverName = "helpscout" /\ ReachedRateCheck(auditLog[i])
    /\ Budget(rateLimitCounters, "helpscout", now) = RequestsPerMinute
    /\ PastRateCheck(auditLog, "helpscout") < RequestsPerMinute
    /\ \E i \in 1..Len(auditLog) :
          auditLog[i].reason = "Payload contains potentially unsafe content"


----------------------------------------------------------------------------
(* Stdio Transport: framing of the child's output                          *)

\* C33: the reader frames the child's output by newlines: every complete
\* newline-terminated reply is parsed and matched against the pending table,
\* however the stream is cut into chunks (two replies in one chunk, one
\* reply split over two chunks): a call whose reply arrived while it was
\* waiting is resolved by that reply.
C33_FramedByNewlines ==
    \A c \in 1..Len(calls) :
        calls[c].arrived # "none"
            => /\ calls[c].by = "reply"
               /\ SameId(calls[c].replyId, calls[c].id)

\* C34: a frame that fails to parse is dropped alone: the server's status
\* and pending table are unchanged by it and no pending call is failed
\* because of it, and a valid reply that arrives after it still resolves its
\* pending call.
C34_BadFrameDroppedAlone ==
    /\ [][\A i \in 1..Len(inst) :
            StdoutData(i, [kind |-> "text", id |-> NoId, error |-> FALSE,
                           newline |-> TRUE, tools |-> FALSE])
                => /\ inst'[i].status = inst[i].status
                   /\ inst'[i].requestQueue = inst[i].requestQueue
                   /\ \A c \in 1..Len(calls) :
                         calls'[c].outcome = calls[c].outcome]_vars
    /\ [](\A c \in 1..Len(calls) :
             calls[c].arrived \in {"line", "afterText"}
                 => calls[c].by = "reply")


----------------------------------------------------------------------------
(* Stdio Transport: the order of the handshake                             *)

\* C35: on each stdio server the initialize request is the first message
\* written, no tools/list or tools/call request is written before the
\* initialize response has been received, and notifications/initialized is
\* written after that response and before tools/list.  (The notification is
\* written by the handler of the initialize response, so a request written
\* after the response has the notification in front of it.)
C35_HandshakeOrder ==
    \A i \in 1..Len(inst) :
        LET w == inst[i].written
        IN  inst[i].type = "stdio" =>
              /\ w # <<>> => w[1].method = "initialize"
              /\ \A k \in 1..Len(w) :
                    w[k].method \in {"tools/list", "tools/call"}
                        => \E j \in 1..(k - 1) :
                              w[j].method = "notifications/initialized"


----------------------------------------------------------------------------
(* Lifecycle: tool discovery                                               *)

\* the tools/list request has failed: it timed out, was answered with an
\* error or with a result that has no tools array, or was not sent
DiscoveryFailed(call) ==
    \/ call.outcome \in {"Timeout", "RemoteError", "NotFound",
                         "ServerUnavailable", "NotImplemented"}
    \/ IF call.outcome = "result" THEN ~call.result.tools ELSE FALSE

\* discovery call c has ended in this step
EndsNow(c) ==
    /\ calls'[c].origin = "discover"
    /\ calls'[c].outcome # "pending"
    /\ IF c <= Len(calls) THEN calls[c].outcome = "pending" ELSE TRUE

\* the step has left every server's status and tools, the run of initialize
\* and every other call as they were
LeavesAllButCall(c) ==
    /\ \A i \in 1..Len(inst) :
          /\ inst'[i].status = inst[i].status
          /\ inst'[i].tools = inst[i].tools
    /\ initRun' = initRun
    /\ microtask' = microtask
    /\ initialized' = initialized
    /\ \A e \in 1..Len(calls) : e # c => calls'[e] = calls[e]

\* C36: tool discovery failure is non-fatal: when tools/list times out,
\* returns an error, returns no tools array or runs after cleanup, no
\* server's status and no tools map is changed by it, and nothing reaches
\* initialize or any other caller.
C36_DiscoveryNonFatal ==
    [][\A c \in 1..Len(calls') :
          (EndsNow(c) /\ DiscoveryFailed(calls'[c]))
              => LeavesAllButCall(c)]_vars

\* tools/list was answered with an error on a ready server, which is still
\* ready and has no tools
C36_Witness ==
    \E c \in 1..Len(calls) :
        /\ calls[c].origin = "discover"
        /\ calls[c].outcome = "RemoteError"
        /\ inst[calls[c].discInst].status = "ready"
        /\ ~inst[calls[c].discInst].tools


----------------------------------------------------------------------------
(* Request Multiplexer: every request returns                              *)

\* call c is waiting for its server
Waiting(c) ==
    IF c <= Len(calls) THEN calls[c].outcome = "pending" ELSE FALSE

\* call c has returned to its caller
Returned(c) ==
    IF c <= Len(calls)
    THEN calls[c].outcome \in {"result", "RemoteError", "Timeout"}
    ELSE FALSE

\* C37: every request sent to a ready stdio server eventually returns to its
\* caller, with a reply, a remote error or a timeout, whatever the server
\* does (silence, garbage output, exit), provided armed timers fire.
C37_RequestsReturn ==
    \A c \in 1..MaxRequests : Waiting(c) ~> Returned(c)

\* a request whose server exited without answering has returned by its timer
C37_Witness ==
    \E c \in 1..Len(calls) :
        /\ calls[c].outcome = "Timeout"
        /\ calls[c].origin = "api"
        /\ inst[calls[c].inst].child = "exited"
        /\ ~calls[c].replySeen


----------------------------------------------------------------------------
(* Lifecycle: the registry and the children                                *)

\* C40: after any sequence of initialize and cleanup calls, including an
\* initialize that failed part-way followed by another initialize, every
\* live child the Broker started and has not yet signalled is referenced by
\* the registry entry of its name, so that cleanup reaches it.
C40_NoOrphanChild ==
    \A i \in 1..Len(inst) :
        (inst[i].child = "running" /\ ~inst[i].killed)
            => servers[inst[i].name] = i

====
